---- MODULE Spec2Model ----
(***************************************************************************)
(* LuminaTask: the process-monitoring core (ProcessManager) together with  *)
(* the slots of MainWindow that are connected to its signals.              *)
(*                                                                         *)
(* Units.  Time is in milliseconds (qint64 of currentMSecsSinceEpoch).     *)
(* Memory is kept in kB, the unit of the VmRSS field: the code's memoryMB  *)
(* is kB / 1024.0, which is exact in a double, so every comparison of the  *)
(* code on memoryMB is the same comparison on kB scaled by 1024.  CPU is   *)
(* kept in tenths of a percent.  Process names are sequences of one        *)
(* character strings, so that substring search is computed, not assumed.   *)
(***************************************************************************)
EXTENDS Integers, Sequences, FiniteSets, TLC

\* ---------------------------------------------------------------------
\* Program constants (include/processmanager.h)
\* ---------------------------------------------------------------------
MEMORY_LEAK_THRESHOLD_MB == 100
MEMORY_LEAK_TIME_WINDOW_MS == 60000
HISTORY_MAX_ENTRIES == 30
REFRESH_INTERVAL_MS == 2000
\* kbValue / 1024.0 in readProcessMemory_
KB_PER_MB == 1024
\* isValidProcessID_: pid > 0 && pid < 65536
PID_LIMIT == 65536
\* SIGTERM, SIGKILL, SIGSTOP, SIGCONT on Linux
SIGTERM == 15
SIGKILL == 9
SIGSTOP == 19
SIGCONT == 18

\* ---------------------------------------------------------------------
\* Bounds of the model
\* ---------------------------------------------------------------------
\* the clock stops advancing at MaxTimeSec seconds
MaxTimeSec == 96
\* the clock bound of the sampling specification (SpecHist)
MaxHistTimeSec == 62
\* an observation is taken only while every history stays this short (the
\* sampling specification SpecHist runs up to HISTORY_MAX_ENTRIES instead)
MaxHist == 2
\* nesting depth of modal dialogs (nested event loops)
MaxDepth == 2

\* the process identifiers that exist in /proc during a run
PIDS == {1, 2}
\* uid of the unprivileged user, and root
USER_UID == 1000
ROOT_UID == 0

\* resident set sizes a process takes, in kB (10 MB, 95 MB, 120 MB)
RSS_LOW == 10 * KB_PER_MB
RSS_MID == 95 * KB_PER_MB
RSS_HIGH == 120 * KB_PER_MB
RssLevels == {RSS_LOW, RSS_MID, RSS_HIGH}

\* ---------------------------------------------------------------------
\* Strings as sequences of characters
\* ---------------------------------------------------------------------
Upper == <<"A","B","C","D","E","F","G","H","I","J","K","L","M",
           "N","O","P","Q","R","S","T","U","V","W","X","Y","Z">>
Lower == <<"a","b","c","d","e","f","g","h","i","j","k","l","m",
           "n","o","p","q","r","s","t","u","v","w","x","y","z">>

\* QChar::toLower restricted to ASCII
ToLowerChar(c) ==
    IF \E i \in 1..26 : Upper[i] = c
    THEN Lower[CHOOSE i \in 1..26 : Upper[i] = c]
    ELSE c

\* QString::contains(sub, Qt::CaseInsensitive)
ContainsCI(s, sub) ==
    \E k \in 0..(Len(s) - Len(sub)) :
        \A i \in 1..Len(sub) : ToLowerChar(s[k + i]) = ToLowerChar(sub[i])

\* ---------------------------------------------------------------------
\* MemoryHistoryTracker: updateMemoryHistory_ and detectMemoryLeak_
\* ---------------------------------------------------------------------
Last(s) == s[Len(s)]

RECURSIVE RemoveOld(_, _)
\* while (!history.isEmpty() && currentTime - first().first > W) removeFirst()
RemoveOld(history, currentTime) ==
    IF history # <<>> /\ (currentTime - history[1].first) > MEMORY_LEAK_TIME_WINDOW_MS
    THEN RemoveOld(Tail(history), currentTime)
    ELSE history

RECURSIVE LimitSize(_)
\* while (history.size() > HISTORY_MAX_ENTRIES) removeFirst()
LimitSize(history) ==
    IF Len(history) > HISTORY_MAX_ENTRIES
    THEN LimitSize(Tail(history))
    ELSE history

\* updateMemoryHistory_ without its second loop: the length is never capped
UpdateMemoryHistoryNoCap(history, currentTime, memoryKB) ==
    RemoveOld(Append(history, [first |-> currentTime, second |-> memoryKB]),
              currentTime)

\* updateMemoryHistory_ on the history of one PID: append, evict by age,
\* then cap the length
UpdateMemoryHistory(history, currentTime, memoryKB) ==
    LimitSize(RemoveOld(Append(history, [first |-> currentTime, second |-> memoryKB]),
                        currentTime))

\* the loop of detectMemoryLeak_ without its break: it ends on the last entry
\* whose age is >= 0.8 * W
LeakReferenceNewest(history) ==
    LET currentTime == Last(history).first
        old == {i \in 1..Len(history) :
                   10 * (currentTime - history[i].first) >= 8 * MEMORY_LEAK_TIME_WINDOW_MS}
    IN  IF old = {} THEN Last(history)
        ELSE history[CHOOSE i \in old : \A j \in old : j <= i]

\* the entry the loop of detectMemoryLeak_ stops at: the first entry whose
\* age is >= 0.8 * W (60000 * 0.8 is exactly 48000.0 as a double); when the
\* loop finds none, oldMemory/oldTime keep their initial values, which are
\* those of the latest entry
LeakReference(history) ==
    LET currentTime == Last(history).first
        old == {i \in 1..Len(history) :
                   10 * (currentTime - history[i].first) >= 8 * MEMORY_LEAK_TIME_WINDOW_MS}
    IN  IF old = {} THEN Last(history)
        ELSE history[CHOOSE i \in old : \A j \in old : i <= j]

\* detectMemoryLeak_ testing only the window-normalised growth
DetectMemoryLeakNoRawGate(memoryHistory) ==
    IF Len(memoryHistory) < 2 THEN FALSE
    ELSE LET ref == LeakReference(memoryHistory)
             memoryGrowthKB == Last(memoryHistory).second - ref.second
             timeSpanMS == Last(memoryHistory).first - ref.first
         IN  /\ timeSpanMS > 0
             /\ memoryGrowthKB * (MEMORY_LEAK_TIME_WINDOW_MS \div 800)
                    > ((MEMORY_LEAK_THRESHOLD_MB * KB_PER_MB) \div 800) * timeSpanMS

\* detectMemoryLeak_: growth is in kB, so "growthMB > 100.0" is
\* growthKB > 100 * 1024 and "growthMB * W / span > 100.0" is
\* growthKB * W > 100 * 1024 * span (span > 0).  Both sides of the latter
\* are divided by 800, which divides W and 100 * 1024, so that the products
\* stay within the 32-bit integers of TLC.
DetectMemoryLeak(memoryHistory) ==
    IF Len(memoryHistory) < 2 THEN FALSE
    ELSE LET ref == LeakReference(memoryHistory)
             memoryGrowthKB == Last(memoryHistory).second - ref.second
             timeSpanMS == Last(memoryHistory).first - ref.first
         IN  /\ timeSpanMS > 0
             /\ memoryGrowthKB > MEMORY_LEAK_THRESHOLD_MB * KB_PER_MB
             /\ memoryGrowthKB * (MEMORY_LEAK_TIME_WINDOW_MS \div 800)
                    > ((MEMORY_LEAK_THRESHOLD_MB * KB_PER_MB) \div 800) * timeSpanMS

\* ---------------------------------------------------------------------
\* The environment: /proc and the kernel
\* ---------------------------------------------------------------------
NAME_BASH == <<"b","a","s","h">>
NAME_JOURNALD == <<"s","y","s","t","e","m","d","-","j","o","u","r","n","a","l","d">>
\* an empty or unreadable /proc/[pid]/comm
NAME_NONE == <<>>

\* CPU readings in tenths of a percent: 0.2, 5.0
CPU_IDLE == 2
CPU_BUSY == 50

VARIABLES
    now,                    \* QDateTime::currentMSecsSinceEpoch()
    proc,                   \* /proc: one record per PID
    euid,                   \* geteuid()
    autoRefreshChecked,     \* m_autoRefreshButton->isChecked()
    m_cachedProcesses,
    m_focusModeEnabled,
    m_processMemoryHistory, \* PID -> history; <<>> when the key is absent
    timerActive,            \* m_refreshTimer->isActive()
    timerDue,               \* the interval has elapsed since the last timeout
    stack,                  \* handlers blocked in a modal dialog, outermost first
    done,                   \* the handler that completed last
    published,              \* payload of the last processesUpdated signal
    heldInFocus             \* history variable: the live processes the cache has
                            \* held since focus mode was last enabled

vars == <<now, proc, euid, autoRefreshChecked, m_cachedProcesses, m_focusModeEnabled,
          m_processMemoryHistory, timerActive, timerDue, stack, done, published,
          heldInFocus>>

\* sysconf(_SC_CLK_TCK), the number of fields of a /proc/[pid]/stat line and
\* an uptime of 1000 s in hundredths of a second
CLK_TCK == 100
STAT_FIELDS == 52
UPTIME_CS == 100000

\* what reading /proc/uptime yields: read is "value" (cs hundredths of a
\* second), "nan", "inf", "malformed", "empty" or "unreadable"
Uptime(read, cs) == [read |-> read, cs |-> cs]

\* a process: what the kernel knows of it (alive, uid, nice, stopped, the
\* resident set rss in kB, the CPU times in ticks) and what the records of
\* /proc/[pid] hold of it.  comm: commOk (it opens) and name; status:
\* statusOk (it opens) and rssField, the form of its VmRSS line ("value",
\* "absent", "nounit" for a line of two fields, "malformed"); stat: statOk
\* (it opens), statParts (the fields of its line, 0 for an empty line) and
\* whether the utime, stime and nice fields parse; uptime: /proc/uptime as
\* it is read with this process.
Process(name, cpu, uid) ==
    [alive |-> TRUE, commOk |-> TRUE, name |-> name,
     statusOk |-> TRUE, rssField |-> "value", rss |-> RSS_LOW,
     statOk |-> TRUE, statParts |-> STAT_FIELDS,
     utimeOk |-> TRUE, stimeOk |-> TRUE, niceOk |-> TRUE,
     utime |-> cpu * CLK_TCK, stime |-> 0,
     uptime |-> Uptime("value", UPTIME_CS),
     uid |-> uid, nice |-> 0, stopped |-> FALSE]

\* a PID with no process
DeadProc ==
    [alive |-> FALSE, commOk |-> FALSE, name |-> NAME_NONE,
     statusOk |-> FALSE, rssField |-> "absent", rss |-> 0,
     statOk |-> FALSE, statParts |-> 0,
     utimeOk |-> FALSE, stimeOk |-> FALSE, niceOk |-> FALSE,
     utime |-> 0, stime |-> 0,
     uptime |-> Uptime("value", UPTIME_CS),
     uid |-> 0, nice |-> 0, stopped |-> FALSE]

\* the processes the focus-mode classification is applied to: a shell, a
\* daemon and an upper-case daemon name, at CPU 0.0, 0.2, 1.0 and 5.0 percent
\* and with 50 and 80 MB resident
NAME_CRON_UPPER == <<"C","R","O","N">>
CPU_ZERO == 0
CPU_ONE == 10
RSS_FIFTY == 50 * KB_PER_MB
RSS_EIGHTY == 80 * KB_PER_MB

PickProfiles ==
    {[Process(n, c, USER_UID) EXCEPT !.rss = m] :
        n \in {NAME_BASH, NAME_JOURNALD, NAME_CRON_UPPER},
        c \in {CPU_ZERO, CPU_IDLE, CPU_ONE, CPU_BUSY},
        m \in {RSS_FIFTY, RSS_EIGHTY}}

\* the records getProcessInfo is read against: a stopped shell at niceness 5
\* with 50 s of CPU time, and each form its comm, status, stat and uptime
\* records can take
NAME_PADDED == <<" ", "s", "h", " ">>
NAME_BLANK == <<" ", "\t">>
RSS_NEGATIVE == 0 - 2 * KB_PER_MB
NICE_SET == 5
UPTIME_SHORT_CS == 1000

ReadBase ==
    [Process(NAME_BASH, CPU_BUSY, USER_UID) EXCEPT !.nice = NICE_SET, !.stopped = TRUE]

CommForms ==
    {[ReadBase EXCEPT !.name = NAME_PADDED],
     [ReadBase EXCEPT !.name = NAME_BLANK],
     [ReadBase EXCEPT !.name = NAME_NONE],
     [ReadBase EXCEPT !.commOk = FALSE]}

StatusForms ==
    {[ReadBase EXCEPT !.statusOk = FALSE],
     ReadBase,
     [ReadBase EXCEPT !.rss = RSS_NEGATIVE],
     [ReadBase EXCEPT !.rssField = "absent"],
     [ReadBase EXCEPT !.rssField = "nounit"],
     [ReadBase EXCEPT !.rssField = "malformed"]}

StatForms(p) ==
    {p,
     [p EXCEPT !.statOk = FALSE],
     [p EXCEPT !.statParts = 0],
     [p EXCEPT !.statParts = 2],
     [p EXCEPT !.statParts = 15],
     [p EXCEPT !.statParts = 18],
     [p EXCEPT !.utimeOk = FALSE],
     [p EXCEPT !.stimeOk = FALSE],
     [p EXCEPT !.niceOk = FALSE],
     [p EXCEPT !.uptime = Uptime("unreadable", 0)],
     [p EXCEPT !.uptime = Uptime("empty", 0)],
     [p EXCEPT !.uptime = Uptime("malformed", 0)],
     [p EXCEPT !.uptime = Uptime("nan", 0)],
     [p EXCEPT !.uptime = Uptime("inf", 0)],
     [p EXCEPT !.uptime = Uptime("value", 0)],
     [p EXCEPT !.uptime = Uptime("value", 0 - UPTIME_SHORT_CS)],
     [p EXCEPT !.uptime = Uptime("value", UPTIME_SHORT_CS)]}

ReadProfiles == CommForms \cup UNION {StatForms(p) : p \in StatusForms}

\* the processes that get started during a run
Profiles ==
    {Process(NAME_BASH, CPU_BUSY, USER_UID),
     Process(NAME_JOURNALD, CPU_IDLE, ROOT_UID)}

\* isValidProcessID_ testing only the upper limit
IsValidProcessIDUpperOnly(pid) == pid < PID_LIMIT

\* isValidProcessID_
IsValidProcessID(pid) == pid > 0 /\ pid < PID_LIMIT

\* decimal digits, the name of a PID directory and std::atoi
DIGITS == <<"0", "1", "2", "3", "4", "5", "6", "7", "8", "9">>
DigitSet == {DIGITS[d] : d \in 1..10}
DigitValues == [c \in DigitSet |-> (CHOOSE d \in 1..10 : DIGITS[d] = c) - 1]
IsDigit(c) == c \in DigitSet
DigitValue(c) == DigitValues[c]

RECURSIVE Itoa(_)
Itoa(n) == IF n < 10 THEN <<DIGITS[n + 1]>>
           ELSE Append(Itoa(n \div 10), DIGITS[(n % 10) + 1])

RECURSIVE AtoiDigits(_, _)
AtoiDigits(s, acc) ==
    IF s = <<>> \/ ~IsDigit(Head(s)) THEN acc
    ELSE AtoiDigits(Tail(s), acc * 10 + DigitValue(Head(s)))

RECURSIVE Atoi(_)
\* std::atoi: leading whitespace, an optional sign, then the leading digits;
\* 0 when there are none
Atoi(s) ==
    IF s = <<>> THEN 0
    ELSE IF Head(s) \in {" ", "\t"} THEN Atoi(Tail(s))
    ELSE IF Head(s) = "-" THEN 0 - AtoiDigits(Tail(s), 0)
    ELSE IF Head(s) = "+" THEN AtoiDigits(Tail(s), 0)
    ELSE AtoiDigits(s, 0)

RECURSIVE Ascending(_)
Ascending(S) ==
    IF S = {} THEN <<>>
    ELSE LET m == CHOOSE x \in S : \A y \in S : x <= y
         IN  <<m>> \o Ascending(S \ {m})

\* the entries readdir("/proc") returns: the dot entries and files, then the
\* PID directories, one of them of a PID past the limit
ProcDirOrder ==
    << <<".">>, <<".", ".">>, <<"c","p","u","i","n","f","o">>, <<"s","e","l","f">> >>
    \o [i \in 1..Cardinality(PIDS) |-> Itoa(Ascending(PIDS)[i])]
    \o << Itoa(PID_LIMIT) >>

\* std::atoi(entry->d_name) of each entry in turn
ProcDirPids == [i \in 1..Len(ProcDirOrder) |-> Atoi(ProcDirOrder[i])]

\* the entries the readdir loop does not skip: isValidProcessID_(atoi(name))
ProcDirValid == SelectSeq(ProcDirPids, IsValidProcessID)

\* QDir("/proc/<pid>").exists()
Exists(pr, pid) == pid \in PIDS /\ pr[pid].alive

\* kill(2): permitted for root and for the owner; the process must exist
KillPermitted(pr, pid) ==
    /\ Exists(pr, pid)
    /\ (euid = ROOT_UID \/ pr[pid].uid = euid)

\* the process table after a delivered signal; a process may survive SIGTERM
AfterSignal(pr, pid, sig, dies) ==
    IF sig = SIGKILL \/ (sig = SIGTERM /\ dies)
    THEN [pr EXCEPT ![pid] = DeadProc]
    ELSE IF sig = SIGSTOP THEN [pr EXCEPT ![pid].stopped = TRUE]
    ELSE IF sig = SIGCONT THEN [pr EXCEPT ![pid].stopped = FALSE]
    ELSE pr

\* setpriority(2): root may set any value, the owner may only raise niceness
SetpriorityPermitted(pr, pid, nice) ==
    /\ Exists(pr, pid)
    /\ \/ euid = ROOT_UID
       \/ (pr[pid].uid = euid /\ nice >= pr[pid].nice)

\* ---------------------------------------------------------------------
\* ProcSource
\* ---------------------------------------------------------------------

\* canKillProcess_ without the comparison of the Uid field
CanKillProcessNoUid(pr, pid) ==
    \/ euid = ROOT_UID
    \/ (Exists(pr, pid) /\ pr[pid].statusOk)

\* canKillProcess_: root always; otherwise the Uid field of the status
\* record must be readable and equal geteuid()
CanKillProcess(pr, pid) ==
    \/ euid = ROOT_UID
    \/ /\ Exists(pr, pid)
       /\ pr[pid].statusOk
       /\ pr[pid].uid = euid

\* QString::trimmed: the name without leading and trailing whitespace
WHITESPACE == {" ", "\t"}

RECURSIVE TrimLeft(_)
TrimLeft(s) ==
    IF s # <<>> /\ Head(s) \in WHITESPACE THEN TrimLeft(Tail(s)) ELSE s

RECURSIVE TrimRight(_)
TrimRight(s) ==
    IF s # <<>> /\ s[Len(s)] \in WHITESPACE
    THEN TrimRight(SubSeq(s, 1, Len(s) - 1))
    ELSE s

Trimmed(s) == TrimRight(TrimLeft(s))

\* readProcessName_: the trimmed first line of comm; <<>> stands for the
\* ProcessException it throws when comm does not open or the name is empty
ReadProcessName(pr, pid) ==
    IF ~pr[pid].commOk THEN <<>> ELSE Trimmed(pr[pid].name)

\* readProcessMemory_ past the open of status, in kB (the code divides by
\* 1024.0): the value of a VmRSS line of three fields whose second parses,
\* 0.0 otherwise
ReadProcessMemory(pr, pid) ==
    IF pr[pid].rssField = "value" THEN pr[pid].rss ELSE 0

\* the reads of getProcessInfo throwing on an unreadable stat as well
ReadsThrowOnStat(pr, pid) ==
    \/ ReadProcessName(pr, pid) = <<>>
    \/ ~pr[pid].statusOk
    \/ ~pr[pid].statOk

\* the reads of getProcessInfo that throw ProcessException: readProcessName_
\* and the open of status in readProcessMemory_
ReadsThrow(pr, pid) ==
    \/ ReadProcessName(pr, pid) = <<>>
    \/ ~pr[pid].statusOk

\* a double as it takes part in comparisons: <<v>> is the number v, in
\* tenths of a percent, and <<>> is NaN, which compares false with everything
NaN == <<>>
RealLess(a, b) == a # NaN /\ b # NaN /\ a[1] < b[1]
QMin(a, b) == IF RealLess(a, b) THEN a ELSE b
QMax(a, b) == IF RealLess(a, b) THEN b ELSE a
\* qBound(min, val, max) is qMax(min, qMin(max, val))
QBoundReal(lo, val, hi) == QMax(lo, QMin(hi, val))

\* readProcessCpu_, in tenths of a percent rounded down
ReadProcessCpu(pr, pid) ==
    LET p == pr[pid]
    IN  IF ~p.statOk \/ p.statParts = 0 \/ p.statParts < 16 THEN 0
        ELSE IF ~p.utimeOk \/ ~p.stimeOk THEN 0
        ELSE IF p.uptime.read \in {"unreadable", "empty", "malformed"} THEN 0
        ELSE IF p.uptime.read = "value" /\ p.uptime.cs <= 0 THEN 0
        ELSE IF CLK_TCK <= 0 THEN 0
        ELSE LET totalTime == p.utime + p.stime
                 cpuPercent ==
                     IF p.uptime.read = "nan" THEN NaN
                     ELSE IF p.uptime.read = "inf" THEN <<0>>
                     ELSE <<(totalTime * 100000) \div (CLK_TCK * p.uptime.cs)>>
             IN  QBoundReal(<<0>>, cpuPercent, <<1000>>)[1]

\* readProcessState_: Running unless stat opens, its line has three fields
\* and the third is "T" or "t"
ReadProcessState(pr, pid) ==
    IF ~pr[pid].statOk \/ pr[pid].statParts = 0 \/ pr[pid].statParts < 3
    THEN "Running"
    ELSE IF pr[pid].stopped THEN "Suspended" ELSE "Running"

\* readProcessPriority_: 0 unless stat opens, its line has nineteen fields
\* and the nineteenth parses
ReadProcessPriority(pr, pid) ==
    IF ~pr[pid].statOk \/ pr[pid].statParts = 0 \/ pr[pid].statParts < 19
    THEN 0
    ELSE IF pr[pid].niceOk THEN pr[pid].nice ELSE 0

\* isBackgroundProcess_: the denylist, then the idle-but-resident rule
backgroundProcesses == <<
    <<"s","y","s","t","e","m","d">>,
    <<"k","t","h","r","e","a","d","d">>,
    <<"k","s","o","f","t","i","r","q","d">>,
    <<"r","c","u","_">>,
    <<"w","a","t","c","h","d","o","g">>,
    <<"s","y","s","t","e","m","d","-">>,
    <<"d","b","u","s">>,
    <<"N","e","t","w","o","r","k","M","a","n","a","g","e","r">>,
    <<"p","u","l","s","e","a","u","d","i","o">>,
    <<"t","r","a","c","k","e","r">>,
    <<"b","a","l","o","o">>,
    <<"u","p","d","a","t","e","d","b">>,
    <<"i","n","d","e","x","e","r">>,
    <<"b","a","c","k","u","p">>,
    <<"c","r","o","n">>,
    <<"a","n","a","c","r","o","n">>,
    <<"r","s","y","s","l","o","g">>,
    <<"a","c","c","o","u","n","t","s","-","d","a","e","m","o","n">> >>

\* isBackgroundProcess_ with the idle rule's bounds included
IsBackgroundProcessInclusive(processInfo) ==
    \/ \E k \in 1..Len(backgroundProcesses) :
           ContainsCI(processInfo.name, backgroundProcesses[k])
    \/ (processInfo.cpuPercent <= 10 /\ processInfo.memoryKB >= 50 * KB_PER_MB)

IsBackgroundProcess(processInfo) ==
    \/ \E k \in 1..Len(backgroundProcesses) :
           ContainsCI(processInfo.name, backgroundProcesses[k])
    \/ (processInfo.cpuPercent < 10 /\ processInfo.memoryKB > 50 * KB_PER_MB)


\* ---------------------------------------------------------------------
\* Effects a handler makes, in the order it makes them
\* ---------------------------------------------------------------------
\* e: "kill" | "setpriority" | "emit" | "cache"; sig: the signal emitted;
\* a: signal number, niceness or growth; ok: result of the system call or
\* the boolean carried by the signal; snap: the snapshot carried
Effect(e, sig, pid, a, ok, snap) ==
    [e |-> e, sig |-> sig, pid |-> pid, a |-> a, ok |-> ok, snap |-> snap]

\* what the environment held for pid when a handler was called
Pre(pr, pid) ==
    [exists |-> Exists(pr, pid),
     uidMatch |-> Exists(pr, pid) /\ pr[pid].uid = euid,
     statusOk |-> Exists(pr, pid) /\ pr[pid].statusOk,
     focus |-> m_focusModeEnabled,
     held |-> heldInFocus]

\* the record of a completed handler
Done(kind, pid, arg, ret, snap, log, depth, pre) ==
    [kind |-> kind, pid |-> pid, arg |-> arg, ret |-> ret, snap |-> snap,
     log |-> log, depth |-> depth, pre |-> pre]

\* a handler blocked in a modal dialog: phase "leak" is the QMessageBox of
\* onMemoryLeakDetected_, reached from the emit inside getProcessInfo;
\* phase "error" is showErrorMessage_ of onProcessTerminated_
Frame(kind, phase, pid, arg, todo, acc, cur, log, pre) ==
    [kind |-> kind, phase |-> phase, pid |-> pid, arg |-> arg, todo |-> todo,
     acc |-> acc, cur |-> cur, log |-> log, pre |-> pre]

\* ---------------------------------------------------------------------
\* ProcessRegistry: getProcessInfo and getAllProcesses
\* ---------------------------------------------------------------------
\* getProcessInfo reporting the growth since the previous sample
GetProcessInfoGrowthSinceLast(pr, processID, hist) ==
    IF \/ ~IsValidProcessID(processID)
       \/ ~Exists(pr, processID)
       \/ ReadsThrow(pr, processID)
    THEN [has |-> FALSE, hist |-> hist, info |-> <<>>, leak |-> FALSE, growthKB |-> 0]
    ELSE LET memoryKB == ReadProcessMemory(pr, processID)
             history == UpdateMemoryHistory(hist[processID], now, memoryKB)
             leech == DetectMemoryLeak(history)
             processInfo ==
                 [pid |-> processID,
                  name |-> ReadProcessName(pr, processID),
                  memoryKB |-> memoryKB,
                  cpuPercent |-> ReadProcessCpu(pr, processID),
                  state |-> ReadProcessState(pr, processID),
                  priority |-> ReadProcessPriority(pr, processID),
                  memoryHistory |-> history,
                  isMemoryLeech |-> leech]
         IN  [has |-> TRUE,
              hist |-> [hist EXCEPT ![processID] = history],
              info |-> <<processInfo>>,
              leak |-> leech,
              growthKB |-> IF Len(history) >= 2
                           THEN memoryKB - history[Len(history) - 1].second
                           ELSE 0]

\* getProcessInfo erasing the history of a PID whose directory is gone
GetProcessInfoDroppingGone(pr, processID, hist) ==
    IF ~IsValidProcessID(processID)
    THEN [has |-> FALSE, hist |-> hist, info |-> <<>>, leak |-> FALSE, growthKB |-> 0]
    ELSE IF ~Exists(pr, processID)
    THEN [has |-> FALSE, hist |-> [hist EXCEPT ![processID] = <<>>],
          info |-> <<>>, leak |-> FALSE, growthKB |-> 0]
    ELSE IF ReadsThrow(pr, processID)
    THEN [has |-> FALSE, hist |-> hist, info |-> <<>>, leak |-> FALSE, growthKB |-> 0]
    ELSE LET memoryKB == ReadProcessMemory(pr, processID)
             history == UpdateMemoryHistory(hist[processID], now, memoryKB)
             leech == DetectMemoryLeak(history)
             processInfo ==
                 [pid |-> processID,
                  name |-> ReadProcessName(pr, processID),
                  memoryKB |-> memoryKB,
                  cpuPercent |-> ReadProcessCpu(pr, processID),
                  state |-> ReadProcessState(pr, processID),
                  priority |-> ReadProcessPriority(pr, processID),
                  memoryHistory |-> history,
                  isMemoryLeech |-> leech]
         IN  [has |-> TRUE,
              hist |-> [hist EXCEPT ![processID] = history],
              info |-> <<processInfo>>,
              leak |-> leech,
              growthKB |-> IF Len(history) >= 2
                           THEN memoryKB - history[1].second
                           ELSE 0]

\* getProcessInfo updating the history before the reads: a PID whose records
\* cannot be read gets a sample of 0 kB
GetProcessInfoSamplingUnreadable(pr, processID, hist) ==
    IF \/ ~IsValidProcessID(processID)
       \/ ~Exists(pr, processID)
    THEN [has |-> FALSE, hist |-> hist, info |-> <<>>, leak |-> FALSE, growthKB |-> 0]
    ELSE IF ReadsThrow(pr, processID)
    THEN [has |-> FALSE,
          hist |-> [hist EXCEPT ![processID] =
                        UpdateMemoryHistory(hist[processID], now, 0)],
          info |-> <<>>, leak |-> FALSE, growthKB |-> 0]
    ELSE LET memoryKB == ReadProcessMemory(pr, processID)
             history == UpdateMemoryHistory(hist[processID], now, memoryKB)
             leech == DetectMemoryLeak(history)
             processInfo ==
                 [pid |-> processID,
                  name |-> ReadProcessName(pr, processID),
                  memoryKB |-> memoryKB,
                  cpuPercent |-> ReadProcessCpu(pr, processID),
                  state |-> ReadProcessState(pr, processID),
                  priority |-> ReadProcessPriority(pr, processID),
                  memoryHistory |-> history,
                  isMemoryLeech |-> leech]
         IN  [has |-> TRUE,
              hist |-> [hist EXCEPT ![processID] = history],
              info |-> <<processInfo>>,
              leak |-> leech,
              growthKB |-> IF Len(history) >= 2
                           THEN memoryKB - history[1].second
                           ELSE 0]

\* getProcessInfo up to and including the emit of memoryLeakDetected.
\* has = FALSE is std::nullopt: invalid PID, no directory, readProcessName_
\* or readProcessMemory_ threw; the history is touched only after all reads.
GetProcessInfo(pr, processID, hist) ==
    IF \/ ~IsValidProcessID(processID)
       \/ ~Exists(pr, processID)
       \/ ReadsThrow(pr, processID)
    THEN [has |-> FALSE, hist |-> hist, info |-> <<>>, leak |-> FALSE, growthKB |-> 0]
    ELSE LET memoryKB == ReadProcessMemory(pr, processID)
             history == UpdateMemoryHistory(hist[processID], now, memoryKB)
             leech == DetectMemoryLeak(history)
             processInfo ==
                 [pid |-> processID,
                  name |-> ReadProcessName(pr, processID),
                  memoryKB |-> memoryKB,
                  cpuPercent |-> ReadProcessCpu(pr, processID),
                  state |-> ReadProcessState(pr, processID),
                  priority |-> ReadProcessPriority(pr, processID),
                  memoryHistory |-> history,
                  isMemoryLeech |-> leech]
         IN  [has |-> TRUE,
              hist |-> [hist EXCEPT ![processID] = history],
              info |-> <<processInfo>>,
              leak |-> leech,
              growthKB |-> IF Len(history) >= 2
                           THEN memoryKB - history[1].second
                           ELSE 0]

\* the readdir loop of getAllProcesses returning at the first entry that
\* yields no snapshot
ScanFromStopping(pr, todo, acc, hist, log) ==
    IF todo = <<>>
    THEN [blocked |-> FALSE, todo |-> <<>>, acc |-> acc, hist |-> hist,
          log |-> log, cur |-> <<>>]
    ELSE LET pid == Head(todo)
             r == GetProcessInfo(pr, pid, hist)
         IN  IF ~r.has
             THEN [blocked |-> FALSE, todo |-> <<>>, acc |-> acc, hist |-> hist,
                   log |-> log, cur |-> <<>>]
             ELSE [blocked |-> r.leak, todo |-> Tail(todo),
                   acc |-> IF r.leak THEN acc ELSE acc \o r.info,
                   hist |-> r.hist, log |-> log,
                   cur |-> IF r.leak THEN r.info ELSE <<>>]

RECURSIVE ScanFrom(_, _, _, _, _)
\* the readdir loop of getAllProcesses over the entries it does not skip,
\* run until it returns or until a getProcessInfo call blocks in the leak
\* dialog (cur is the snapshot that call returns once the dialog is closed)
ScanFrom(pr, todo, acc, hist, log) ==
    IF todo = <<>>
    THEN [blocked |-> FALSE, todo |-> <<>>, acc |-> acc, hist |-> hist,
          log |-> log, cur |-> <<>>]
    ELSE LET pid == Head(todo)
             r == GetProcessInfo(pr, pid, hist)
         IN  IF ~r.has THEN ScanFrom(pr, Tail(todo), acc, hist, log)
             ELSE IF r.leak
             THEN [blocked |-> TRUE, todo |-> Tail(todo), acc |-> acc,
                   hist |-> r.hist,
                   log |-> Append(log, Effect("emit", "memoryLeakDetected",
                                              pid, r.growthKB, TRUE, r.info)),
                   cur |-> r.info]
             ELSE ScanFrom(pr, Tail(todo), acc \o r.info, r.hist, log)

\* ---------------------------------------------------------------------
\* LifecycleController: setPriority
\* ---------------------------------------------------------------------
\* qBound(min, val, max)
QBound(lo, val, hi) == IF val < lo THEN lo ELSE IF val > hi THEN hi ELSE val

\* setPriority handing the requested value to setpriority(2) as it came
SetPriorityUnclamped(pr, processID, priority) ==
    IF ~IsValidProcessID(processID)
    THEN [ret |-> FALSE, proc |-> pr, log |-> <<>>]
    ELSE LET ok == SetpriorityPermitted(pr, processID, priority)
         IN  [ret |-> ok,
              proc |-> IF ok THEN [pr EXCEPT ![processID].nice = priority] ELSE pr,
              log |-> <<Effect("setpriority", "", processID, priority, ok, <<>>)>>]

\* setPriority: result, process table and effect of one call
SetPriority(pr, processID, priority) ==
    IF ~IsValidProcessID(processID)
    THEN [ret |-> FALSE, proc |-> pr, log |-> <<>>]
    ELSE LET nice == QBound(-20, priority, 19)
             ok == SetpriorityPermitted(pr, processID, nice)
         IN  [ret |-> ok,
              proc |-> IF ok THEN [pr EXCEPT ![processID].nice = nice] ELSE pr,
              log |-> <<Effect("setpriority", "", processID, nice, ok, <<>>)>>]

\* ---------------------------------------------------------------------
\* FocusModeController
\* ---------------------------------------------------------------------
\* the loop of getFocusedWindowPID_ taking a process whose CPU equals the
\* highest seen so far
RECURSIVE FocusedLoopNonStrict(_, _, _, _)
FocusedLoopNonStrict(cache, i, focusedPID, highestCPU) ==
    IF i > Len(cache) THEN focusedPID
    ELSE IF ~IsBackgroundProcess(cache[i]) /\ cache[i].cpuPercent >= highestCPU
    THEN FocusedLoopNonStrict(cache, i + 1, cache[i].pid, cache[i].cpuPercent)
    ELSE FocusedLoopNonStrict(cache, i + 1, focusedPID, highestCPU)

\* the loop of getFocusedWindowPID_
RECURSIVE FocusedLoop(_, _, _, _)
FocusedLoop(cache, i, focusedPID, highestCPU) ==
    IF i > Len(cache) THEN focusedPID
    ELSE IF ~IsBackgroundProcess(cache[i]) /\ cache[i].cpuPercent > highestCPU
    THEN FocusedLoop(cache, i + 1, cache[i].pid, cache[i].cpuPercent)
    ELSE FocusedLoop(cache, i + 1, focusedPID, highestCPU)

\* getFocusedWindowPID_: highest CPU among the non-background processes
GetFocusedWindowPID(cache) == FocusedLoop(cache, 1, 0, 0)

\* the loop of optimizeForFocusedApp_ lowering every process but the focused
RECURSIVE OptimizeLoopEveryOther(_, _, _, _, _)
OptimizeLoopEveryOther(pr, cache, i, focusedPID, log) ==
    IF i > Len(cache) THEN [proc |-> pr, log |-> log]
    ELSE LET r == SetPriority(pr, cache[i].pid,
                              IF cache[i].pid = focusedPID THEN -10 ELSE 10)
         IN  OptimizeLoopEveryOther(r.proc, cache, i + 1, focusedPID, log \o r.log)

\* the loop of optimizeForFocusedApp_
RECURSIVE OptimizeLoop(_, _, _, _, _)
OptimizeLoop(pr, cache, i, focusedPID, log) ==
    IF i > Len(cache) THEN [proc |-> pr, log |-> log]
    ELSE IF cache[i].pid = focusedPID
    THEN LET r == SetPriority(pr, cache[i].pid, -10)
         IN  OptimizeLoop(r.proc, cache, i + 1, focusedPID, log \o r.log)
    ELSE IF IsBackgroundProcess(cache[i])
    THEN LET r == SetPriority(pr, cache[i].pid, 10)
         IN  OptimizeLoop(r.proc, cache, i + 1, focusedPID, log \o r.log)
    ELSE OptimizeLoop(pr, cache, i + 1, focusedPID, log)

\* optimizeForFocusedApp_ on the given cache
OptimizeForFocusedApp(pr, cache, enabled) ==
    IF ~enabled THEN [proc |-> pr, log |-> <<>>]
    ELSE OptimizeLoop(pr, cache, 1, GetFocusedWindowPID(cache), <<>>)

RECURSIVE ResetLoop(_, _, _, _)
\* the loop of enableFocusMode(false): setPriority(process.pid, 0)
ResetLoop(pr, cache, i, log) ==
    IF i > Len(cache) THEN [proc |-> pr, log |-> log]
    ELSE LET r == SetPriority(pr, cache[i].pid, 0)
         IN  ResetLoop(r.proc, cache, i + 1, log \o r.log)


\* ---------------------------------------------------------------------
\* LifecycleController: terminate, suspend, resume
\* ---------------------------------------------------------------------
\* terminateProcess up to the return of the emit: result, process table and
\* effects (the kill call and the processTerminated signal)
TerminateProcess(pr, processID, signal, dies) ==
    IF ~IsValidProcessID(processID) \/ ~CanKillProcess(pr, processID)
    THEN [ret |-> FALSE, proc |-> pr, log |-> <<>>]
    ELSE LET ok == KillPermitted(pr, processID)
         IN  [ret |-> ok,
              proc |-> IF ok THEN AfterSignal(pr, processID, signal, dies) ELSE pr,
              log |-> <<Effect("kill", "", processID, signal, ok, <<>>),
                        Effect("emit", "processTerminated", processID, 0, ok, <<>>)>>]

\* suspendProcess / resumeProcess returning true whatever kill returned
StopOrContinueIgnoringResult(pr, processID, signal) ==
    IF ~IsValidProcessID(processID) \/ ~CanKillProcess(pr, processID)
    THEN [ret |-> FALSE, proc |-> pr, log |-> <<>>]
    ELSE LET ok == KillPermitted(pr, processID)
         IN  [ret |-> TRUE,
              proc |-> IF ok THEN AfterSignal(pr, processID, signal, FALSE) ELSE pr,
              log |-> <<Effect("kill", "", processID, signal, ok, <<>>)>>]

\* suspendProcess (SIGSTOP) and resumeProcess (SIGCONT): no signal is emitted
StopOrContinue(pr, processID, signal) ==
    IF ~IsValidProcessID(processID) \/ ~CanKillProcess(pr, processID)
    THEN [ret |-> FALSE, proc |-> pr, log |-> <<>>]
    ELSE LET ok == KillPermitted(pr, processID)
         IN  [ret |-> ok,
              proc |-> IF ok THEN AfterSignal(pr, processID, signal, FALSE) ELSE pr,
              log |-> <<Effect("kill", "", processID, signal, ok, <<>>)>>]

\* enableFocusMode without its early return on an unchanged flag
EnableFocusModeAlways(pr, cache, current, enabled) ==
    LET r == IF enabled
             THEN OptimizeForFocusedApp(pr, cache, enabled)
             ELSE ResetLoop(pr, cache, 1, <<>>)
    IN  [focus |-> enabled, proc |-> r.proc,
         log |-> Append(r.log, Effect("emit", "focusModeChanged", 0, 0, enabled, <<>>))]

\* enableFocusMode: the new flag, the process table and the effects
EnableFocusMode(pr, cache, current, enabled) ==
    IF current = enabled
    THEN [focus |-> current, proc |-> pr, log |-> <<>>]
    ELSE LET r == IF enabled
                  THEN OptimizeForFocusedApp(pr, cache, enabled)
                  ELSE ResetLoop(pr, cache, 1, <<>>)
         IN  [focus |-> enabled, proc |-> r.proc,
              log |-> Append(r.log, Effect("emit", "focusModeChanged", 0, 0, enabled, <<>>))]

\* ---------------------------------------------------------------------
\* Scheduler: the tail of refreshProcessList_, after getAllProcesses returned
\* ---------------------------------------------------------------------
\* refreshProcessList_ without its emit of processesUpdated
RefreshProcessListTailNoEmit(pr, processes, oldCache, enabled) ==
    LET o == IF enabled THEN OptimizeForFocusedApp(pr, processes, enabled)
             ELSE [proc |-> pr, log |-> <<>>]
    IN  [cache |-> processes, proc |-> o.proc, published |-> oldCache,
         log |-> <<Effect("cache", "", 0, 0, TRUE, processes)>> \o o.log]

\* refreshProcessList_ rebalancing before it replaces the cache
RefreshProcessListTailStale(pr, processes, oldCache, enabled) ==
    LET o == IF enabled THEN OptimizeForFocusedApp(pr, oldCache, enabled)
             ELSE [proc |-> pr, log |-> <<>>]
    IN  [cache |-> processes, proc |-> o.proc, published |-> processes,
         log |-> o.log \o <<Effect("cache", "", 0, 0, TRUE, processes)>>
                 \o <<Effect("emit", "processesUpdated", 0, 0, TRUE, processes)>>]

RefreshProcessListTail(pr, processes, oldCache, enabled) ==
    LET cache == processes
        o == IF enabled THEN OptimizeForFocusedApp(pr, cache, enabled)
             ELSE [proc |-> pr, log |-> <<>>]
    IN  [cache |-> cache, proc |-> o.proc, published |-> processes,
         log |-> <<Effect("cache", "", 0, 0, TRUE, cache)>> \o o.log
                 \o <<Effect("emit", "processesUpdated", 0, 0, TRUE, processes)>>]

\* a query that stores its result in the cache
CacheAfterQueryStoring(cache, result) == result

\* the cache after onRefreshButtonClicked_ / getAllProcesses / getProcessInfo:
\* none of them assigns m_cachedProcesses
CacheAfterQuery(cache, result) == cache


\* ---------------------------------------------------------------------
\* Handlers.  A handler runs until it returns or until it blocks in a modal
\* dialog; a modal dialog runs a nested event loop in which the refresh
\* timer still fires while the widgets of the main window take no input.
\* ---------------------------------------------------------------------
NoPre == Pre(proc, 0)

\* history variable heldInFocus: a process that exits leaves it; a tick that
\* ran without blocking adds the processes it has just read (a tick that was
\* blocked in a dialog may carry snapshots of processes that have exited
\* since, and adds none)
StillAlive(held, pr) == {p \in held : Exists(pr, p)}

\* the handler whose scan loop returned: what is left of it after
\* getAllProcesses
Finish(fr, pr, hist, below) ==
    /\ stack' = below
    /\ m_processMemoryHistory' = hist
    /\ IF fr.kind = "tick"
       THEN LET t == RefreshProcessListTail(pr, fr.acc, m_cachedProcesses,
                                            m_focusModeEnabled)
            IN  /\ m_cachedProcesses' = t.cache
                /\ proc' = t.proc
                /\ published' = t.published
                /\ done' = Done("tick", 0, 0, TRUE, fr.acc, fr.log \o t.log,
                                Len(below), NoPre)
                /\ heldInFocus' =
                       IF ~m_focusModeEnabled THEN {}
                       ELSE IF fr.phase = "resumed" THEN StillAlive(heldInFocus, t.proc)
                       ELSE heldInFocus \cup {fr.acc[i].pid : i \in 1..Len(fr.acc)}
       ELSE /\ m_cachedProcesses' = CacheAfterQuery(m_cachedProcesses, fr.acc)
            /\ proc' = pr
            /\ published' = published
            /\ done' = Done(fr.kind, fr.pid, fr.arg, TRUE, fr.acc, fr.log,
                            Len(below), fr.pre)
            /\ heldInFocus' = StillAlive(heldInFocus, pr)

\* enter or re-enter the readdir loop of getAllProcesses
Continue(fr, pr, below) ==
    LET r == ScanFrom(pr, fr.todo, fr.acc, m_processMemoryHistory, fr.log)
    IN  IF r.blocked
        THEN /\ Len(below) < MaxDepth
             /\ stack' = Append(below, [fr EXCEPT !.phase = "leak", !.todo = r.todo,
                                                  !.acc = r.acc, !.cur = r.cur,
                                                  !.log = r.log])
             /\ m_processMemoryHistory' = r.hist
             /\ proc' = pr
             /\ heldInFocus' = StillAlive(heldInFocus, pr)
             /\ UNCHANGED <<m_cachedProcesses, done, published>>
        ELSE Finish([fr EXCEPT !.acc = r.acc, !.log = r.log], pr, r.hist, below)

\* refreshProcessList_: the slot of QTimer::timeout.  It runs from whatever
\* event loop is running, the main one or the one of a modal dialog.
RefreshProcessList ==
    /\ timerActive /\ timerDue
    /\ timerDue' = FALSE
    /\ Continue(Frame("tick", "", 0, 0, ProcDirValid, <<>>, <<>>, <<>>, NoPre),
                proc, stack)
    /\ UNCHANGED <<now, euid, autoRefreshChecked, m_focusModeEnabled, timerActive>>

\* MainWindow::onRefreshButtonClicked_
OnRefreshButtonClicked ==
    /\ stack = <<>>
    /\ Continue(Frame("manual", "", 0, 0, ProcDirValid, <<>>, <<>>, <<>>, NoPre),
                proc, <<>>)
    /\ UNCHANGED <<now, euid, autoRefreshChecked, m_focusModeEnabled, timerActive, timerDue>>

\* the PIDs the collaborator asks about: the PIDs of /proc, 0 and 65536
OpPids == PIDS \cup {0, PID_LIMIT}

\* a call of getProcessInfo(pid) by the collaborator
LookupProcess(pid) ==
    /\ stack = <<>>
    /\ LET r == GetProcessInfo(proc, pid, m_processMemoryHistory)
       IN  /\ m_processMemoryHistory' = r.hist
           /\ m_cachedProcesses' = CacheAfterQuery(m_cachedProcesses, r.info)
           /\ IF r.leak
              THEN /\ stack' = <<Frame("lookup", "leak", pid, 0, <<>>, <<>>, r.info,
                                       <<Effect("emit", "memoryLeakDetected", pid,
                                                r.growthKB, TRUE, r.info)>>,
                                       Pre(proc, pid))>>
                   /\ done' = done
              ELSE /\ stack' = stack
                   /\ done' = Done("lookup", pid, 0, r.has, r.info, <<>>, 0,
                                   Pre(proc, pid))
    /\ UNCHANGED <<now, proc, euid, autoRefreshChecked, m_focusModeEnabled, timerActive, timerDue,
                   published, heldInFocus>>

\* the user closes the topmost modal dialog: the handler blocked in it goes on
DialogClosed ==
    /\ stack # <<>>
    /\ LET fr == Last(stack)
           below == SubSeq(stack, 1, Len(stack) - 1)
       IN  IF fr.phase = "leak" /\ fr.kind # "lookup"
           THEN Continue([fr EXCEPT !.phase = "resumed", !.acc = fr.acc \o fr.cur,
                                    !.cur = <<>>], proc, below)
           ELSE /\ stack' = below
                /\ done' = Done(fr.kind, fr.pid, fr.arg, fr.phase = "leak",
                                fr.cur, fr.log, Len(below), fr.pre)
                /\ UNCHANGED <<proc, m_cachedProcesses, m_processMemoryHistory,
                               published, heldInFocus>>
    /\ UNCHANGED <<now, euid, autoRefreshChecked, m_focusModeEnabled, timerActive, timerDue>>

\* a call of terminateProcess(pid, method).  processTerminated(pid, true)
\* runs onProcessTerminated_, which refreshes; processTerminated(pid, false)
\* runs showErrorMessage_, a modal dialog
Terminate(pid, signal, dies) ==
    /\ stack = <<>>
    /\ LET r == TerminateProcess(proc, pid, signal, dies)
       IN  IF r.log = <<>>
           THEN /\ done' = Done("terminate", pid, signal, FALSE, <<>>, <<>>, 0,
                                Pre(proc, pid))
                /\ UNCHANGED <<proc, stack, m_cachedProcesses,
                               m_processMemoryHistory, published, heldInFocus>>
           ELSE IF r.ret
           THEN Continue(Frame("terminate", "", pid, signal, ProcDirValid, <<>>,
                               <<>>, r.log, Pre(proc, pid)), r.proc, <<>>)
           ELSE /\ stack' = <<Frame("terminate", "error", pid, signal, <<>>, <<>>,
                                    <<>>, r.log, Pre(proc, pid))>>
                /\ UNCHANGED <<proc, done, m_cachedProcesses,
                               m_processMemoryHistory, published, heldInFocus>>
    /\ UNCHANGED <<now, euid, autoRefreshChecked, m_focusModeEnabled, timerActive, timerDue>>

\* a call of suspendProcess(pid) or resumeProcess(pid)
Suspend(pid) ==
    /\ stack = <<>>
    /\ LET r == StopOrContinue(proc, pid, SIGSTOP)
       IN  /\ proc' = r.proc
           /\ done' = Done("suspend", pid, SIGSTOP, r.ret, <<>>, r.log, 0,
                           Pre(proc, pid))
    /\ UNCHANGED <<now, euid, autoRefreshChecked, m_cachedProcesses, m_focusModeEnabled,
                   m_processMemoryHistory, timerActive, timerDue, stack, published,
                   heldInFocus>>

Resume(pid) ==
    /\ stack = <<>>
    /\ LET r == StopOrContinue(proc, pid, SIGCONT)
       IN  /\ proc' = r.proc
           /\ done' = Done("resume", pid, SIGCONT, r.ret, <<>>, r.log, 0,
                           Pre(proc, pid))
    /\ UNCHANGED <<now, euid, autoRefreshChecked, m_cachedProcesses, m_focusModeEnabled,
                   m_processMemoryHistory, timerActive, timerDue, stack, published,
                   heldInFocus>>

\* the niceness values the collaborator asks for
PriorityInputs == {-999, -21, -20, 0, 5, 19, 20, 999}

\* a call of setPriority(pid, priority)
SetPriorityCall(pid, priority) ==
    /\ stack = <<>>
    /\ LET r == SetPriority(proc, pid, priority)
       IN  /\ proc' = r.proc
           /\ done' = Done("setPriority", pid, priority, r.ret, <<>>, r.log, 0,
                           Pre(proc, pid))
    /\ UNCHANGED <<now, euid, autoRefreshChecked, m_cachedProcesses, m_focusModeEnabled,
                   m_processMemoryHistory, timerActive, timerDue, stack, published,
                   heldInFocus>>

\* a call of enableFocusMode(enabled) (MainWindow::onFocusModeToggled_)
SetFocusMode(enabled) ==
    /\ stack = <<>>
    /\ LET r == EnableFocusMode(proc, m_cachedProcesses, m_focusModeEnabled, enabled)
       IN  /\ m_focusModeEnabled' = r.focus
           /\ proc' = r.proc
           /\ done' = Done("focus", 0, IF enabled THEN 1 ELSE 0, TRUE,
                           m_cachedProcesses, r.log, 0, NoPre)
           /\ heldInFocus' = IF r.focus /\ m_focusModeEnabled THEN heldInFocus ELSE {}
    /\ UNCHANGED <<now, euid, autoRefreshChecked, m_cachedProcesses, m_processMemoryHistory,
                   timerActive, timerDue, stack, published>>

\* startPeriodicRefresh: QTimer::start restarts the interval
StartPeriodicRefresh ==
    /\ stack = <<>>
    /\ timerActive' = TRUE
    /\ timerDue' = FALSE
    /\ UNCHANGED <<now, proc, euid, autoRefreshChecked, m_cachedProcesses, m_focusModeEnabled,
                   m_processMemoryHistory, stack, done, published, heldInFocus>>

\* stopPeriodicRefresh that discards the timeout that is due and leaves the
\* timer running
StopPeriodicRefreshLeavingActive ==
    /\ stack = <<>>
    /\ timerActive' = timerActive
    /\ timerDue' = FALSE
    /\ UNCHANGED <<now, proc, euid, autoRefreshChecked, m_cachedProcesses, m_focusModeEnabled,
                   m_processMemoryHistory, stack, done, published, heldInFocus>>

\* stopPeriodicRefresh: stops the timer when it is active
StopPeriodicRefresh ==
    /\ stack = <<>>
    /\ timerActive' = (IF timerActive THEN FALSE ELSE timerActive)
    /\ timerDue' = FALSE
    /\ UNCHANGED <<now, proc, euid, autoRefreshChecked, m_cachedProcesses, m_focusModeEnabled,
                   m_processMemoryHistory, stack, done, published, heldInFocus>>

\* MainWindow::onAutoRefreshToggled_: the user clicks the auto-refresh button,
\* which emits toggled(checked); the slot calls startPeriodicRefresh() when
\* the button is now checked and stopPeriodicRefresh() when it is not
OnAutoRefreshToggled ==
    /\ stack = <<>>
    /\ autoRefreshChecked' = ~autoRefreshChecked
    /\ timerActive' = IF autoRefreshChecked' THEN TRUE
                      ELSE IF timerActive THEN FALSE ELSE timerActive
    /\ timerDue' = FALSE
    /\ UNCHANGED <<now, proc, euid, m_cachedProcesses, m_focusModeEnabled,
                   m_processMemoryHistory, stack, done, published, heldInFocus>>


\* ---------------------------------------------------------------------
\* The environment's steps
\* ---------------------------------------------------------------------
\* the clock advances by 48 s, which is 0.8 * W and exceeds the timer interval
TimeSteps == {48000}

Advance(d) ==
    /\ now + d <= MaxTimeSec * 1000
    /\ now' = now + d
    /\ timerDue' = (timerActive /\ (timerDue \/ d >= REFRESH_INTERVAL_MS))
    /\ UNCHANGED <<proc, euid, autoRefreshChecked, m_cachedProcesses, m_focusModeEnabled,
                   m_processMemoryHistory, timerActive, stack, done, published,
                   heldInFocus>>

\* a process allocates: its resident set grows from 10 MB to 120 MB
Grow(p) ==
    /\ proc[p].alive /\ proc[p].rss = RSS_LOW
    /\ proc' = [proc EXCEPT ![p].rss = RSS_HIGH]
    /\ UNCHANGED <<now, euid, autoRefreshChecked, m_cachedProcesses, m_focusModeEnabled,
                   m_processMemoryHistory, timerActive, timerDue, stack, done,
                   published, heldInFocus>>

\* a process turns busy: its CPU time grows until its lifetime average is
\* 9.0 percent, above that of every other process
CPU_PEAK == 90

Burn(p) ==
    /\ proc[p].alive /\ proc[p].utime < CPU_PEAK * CLK_TCK
    /\ proc' = [proc EXCEPT ![p].utime = CPU_PEAK * CLK_TCK]
    /\ UNCHANGED <<now, euid, autoRefreshChecked, m_cachedProcesses, m_focusModeEnabled,
                   m_processMemoryHistory, timerActive, timerDue, stack, done,
                   published, heldInFocus>>

\* a process exits
Exit(p) ==
    /\ proc[p].alive
    /\ proc' = [proc EXCEPT ![p] = DeadProc]
    /\ heldInFocus' = heldInFocus \ {p}
    /\ UNCHANGED <<now, euid, autoRefreshChecked, m_cachedProcesses, m_focusModeEnabled,
                   m_processMemoryHistory, timerActive, timerDue, stack, done,
                   published>>

\* a process starts under a free (possibly reused) PID
Spawn(p, pf) ==
    /\ ~proc[p].alive
    /\ proc' = [proc EXCEPT ![p] = pf]
    /\ UNCHANGED <<now, euid, autoRefreshChecked, m_cachedProcesses, m_focusModeEnabled,
                   m_processMemoryHistory, timerActive, timerDue, stack, done,
                   published, heldInFocus>>

\* a process empties its comm (prctl(PR_SET_NAME, ""))
ClearName(p) ==
    /\ proc[p].alive /\ proc[p].name # NAME_NONE
    /\ proc' = [proc EXCEPT ![p].name = NAME_NONE]
    /\ UNCHANGED <<now, euid, autoRefreshChecked, m_cachedProcesses, m_focusModeEnabled,
                   m_processMemoryHistory, timerActive, timerDue, stack, done,
                   published, heldInFocus>>

\* the status record of a process becomes unreadable
HideStatus(p) ==
    /\ proc[p].alive /\ proc[p].statusOk
    /\ proc' = [proc EXCEPT ![p].statusOk = FALSE]
    /\ UNCHANGED <<now, euid, autoRefreshChecked, m_cachedProcesses, m_focusModeEnabled,
                   m_processMemoryHistory, timerActive, timerDue, stack, done,
                   published, heldInFocus>>

\* ---------------------------------------------------------------------
\* Specification
\* ---------------------------------------------------------------------
EmptyHistory == [p \in PIDS |-> <<>>]

\* the state when the constructor of MainWindow returns: the timer is
\* created but not started, the cache is empty, and the constructor has
\* called onRefreshButtonClicked_ once
InitFrom(tables) ==
    /\ now = 0
    /\ euid \in {ROOT_UID, USER_UID}
    /\ proc \in tables
    \* setupToolbar_ checks the button before the constructor connects
    \* toggled to onAutoRefreshToggled_: no slot runs, the timer is not started
    /\ autoRefreshChecked = TRUE
    /\ m_cachedProcesses = <<>>
    /\ m_focusModeEnabled = FALSE
    /\ timerActive = FALSE
    /\ timerDue = FALSE
    /\ stack = <<>>
    /\ published = <<>>
    /\ heldInFocus = {}
    /\ LET r == ScanFrom(proc, ProcDirValid, <<>>, EmptyHistory, <<>>)
       IN  /\ m_processMemoryHistory = r.hist
           /\ done = Done("manual", 0, 0, TRUE, r.acc, <<>>, 0, NoPre)

Init == InitFrom([PIDS -> Profiles \cup {DeadProc}])

\* The process the environment acts on: PID 1 comes, goes, grows and
\* empties its name.  In the control and focus specifications PID 2 is a
\* valid PID without a process.
Watched == {1}

InitWatched == Init /\ proc[2] = DeadProc

\* The scheduler's /proc: PID 2, when it runs, is a daemon that stays
InitSched ==
    /\ Init
    /\ proc[2] \in {DeadProc, Process(NAME_JOURNALD, CPU_IDLE, ROOT_UID)}

\* observations are taken while every history stays within MaxHist entries
HistWithinBound == \A p \in PIDS : Len(m_processMemoryHistory'[p]) <= MaxHist

\* The scheduler and the queries: a process that grows and may exit, the
\* leak dialog and the ticks that fire while it is open.  The timer, once
\* started, runs on; stopping it is part of the focus specification.
Next ==
    \/ RefreshProcessList /\ HistWithinBound
    \/ OnRefreshButtonClicked /\ HistWithinBound
    \/ DialogClosed /\ HistWithinBound
    \/ \E pid \in Watched : LookupProcess(pid) /\ HistWithinBound
    \/ \E enabled \in BOOLEAN : SetFocusMode(enabled)
    \/ StartPeriodicRefresh
    \/ \E d \in TimeSteps : Advance(d)
    \/ \E p \in Watched : Grow(p)
    \/ \E p \in Watched : Exit(p)

Spec == InitSched /\ [][Next]_vars

\* Focus mode and the cache: processes that come, go and empty their name,
\* none of them growing, so that no dialog opens
NextFocus ==
    \/ RefreshProcessList /\ HistWithinBound
    \/ OnRefreshButtonClicked /\ HistWithinBound
    \/ \E pid \in Watched : LookupProcess(pid) /\ HistWithinBound
    \/ \E enabled \in BOOLEAN : SetFocusMode(enabled)
    \/ StartPeriodicRefresh
    \/ StopPeriodicRefresh
    \/ \E d \in TimeSteps : Advance(d)
    \/ \E p \in Watched : Exit(p)
    \/ \E p \in Watched, pf \in Profiles : Spawn(p, pf)
    \/ \E p \in Watched : ClearName(p)

SpecFocus == InitWatched /\ [][NextFocus]_vars

\* The control operations, called with valid and invalid PIDs by either
\* kind of caller on a process of either owner
NextCtl ==
    \/ \E pid \in OpPids, signal \in {SIGTERM, SIGKILL}, dies \in BOOLEAN :
           Terminate(pid, signal, dies) /\ HistWithinBound
    \/ \E pid \in OpPids : Suspend(pid)
    \/ \E pid \in OpPids : Resume(pid)
    \/ \E pid \in OpPids, priority \in PriorityInputs : SetPriorityCall(pid, priority)
    \/ DialogClosed
    \/ \E p \in Watched : Exit(p)
    \/ \E p \in Watched, pf \in Profiles : Spawn(p, pf)
    \/ \E p \in Watched : HideStatus(p)

SpecCtl == InitWatched /\ [][NextCtl]_vars

\* Focus mode as a function of the cache: two processes drawn from the
\* classification inputs, neither changing, scanned by the constructor and by
\* the ticks, with focus mode switched on and off
InitPick == InitFrom([PIDS -> PickProfiles \cup {DeadProc}])

NextPick ==
    \/ RefreshProcessList /\ HistWithinBound
    \/ \E enabled \in BOOLEAN : SetFocusMode(enabled)
    \/ StartPeriodicRefresh
    \/ \E d \in TimeSteps : Advance(d)

SpecPick == InitPick /\ [][NextPick]_vars

\* Focus mode while the load shifts: two processes, a shell that is busy or
\* idle or a daemon, any of which may turn busy between two ticks
TrackProfiles == Profiles \cup {Process(NAME_BASH, CPU_IDLE, USER_UID)}

InitTrack == InitFrom([PIDS -> TrackProfiles \cup {DeadProc}])

NextTrack ==
    \/ RefreshProcessList /\ HistWithinBound
    \/ \E enabled \in BOOLEAN : SetFocusMode(enabled)
    \/ StartPeriodicRefresh
    \/ \E d \in TimeSteps : Advance(d)
    \/ \E p \in PIDS : Burn(p)

SpecTrack == InitTrack /\ [][NextTrack]_vars

\* Every operation that takes a PID, called with the PID of the watched
\* process and with -1, 0 and 65536, next to a cache and a history that are
\* in use
GuardPids == Watched \cup {-1, 0, PID_LIMIT}

NextGuard ==
    \/ \E pid \in GuardPids : Terminate(pid, SIGKILL, TRUE) /\ HistWithinBound
    \/ \E pid \in GuardPids : Suspend(pid)
    \/ \E pid \in GuardPids : Resume(pid)
    \/ \E pid \in GuardPids : SetPriorityCall(pid, 10)
    \/ \E pid \in GuardPids : LookupProcess(pid) /\ HistWithinBound
    \/ DialogClosed /\ HistWithinBound
    \/ RefreshProcessList /\ HistWithinBound
    \/ StartPeriodicRefresh
    \/ \E d \in TimeSteps : Advance(d)

SpecGuard == InitWatched /\ [][NextGuard]_vars

\* The application as its user drives it: the timer is started and stopped
\* only by the auto-refresh button
NextApp ==
    \/ OnAutoRefreshToggled
    \/ RefreshProcessList /\ HistWithinBound
    \/ OnRefreshButtonClicked /\ HistWithinBound
    \/ \E enabled \in BOOLEAN : SetFocusMode(enabled)
    \/ \E d \in TimeSteps : Advance(d)
    \/ \E p \in Watched : Exit(p)

SpecApp == InitSched /\ [][NextApp]_vars

\* PID reuse: the watched process exits and its PID is taken by a new process,
\* one of the usual ones or a daemon of 120 MB; none of them grows
ReuseBig == [Process(NAME_JOURNALD, CPU_IDLE, ROOT_UID) EXCEPT !.rss = RSS_HIGH]

NextReuse ==
    \/ OnRefreshButtonClicked /\ HistWithinBound
    \/ \E pid \in Watched : LookupProcess(pid) /\ HistWithinBound
    \/ DialogClosed /\ HistWithinBound
    \/ \E d \in TimeSteps : Advance(d)
    \/ \E p \in Watched : Exit(p)
    \/ \E p \in Watched, pf \in Profiles \cup {ReuseBig} : Spawn(p, pf)

SpecReuse == InitWatched /\ [][NextReuse]_vars

\* The reads of getProcessInfo as a function of the records: PID 1 drawn from
\* the forms its records can take, PID 2 absent or a daemon, neither changing,
\* read by lookups and manual refreshes
ReadDaemon == Process(NAME_JOURNALD, CPU_IDLE, ROOT_UID)

InitRead ==
    InitFrom({[p \in PIDS |-> IF p \in Watched THEN a ELSE b] :
                  a \in ReadProfiles, b \in {DeadProc, ReadDaemon}})

NextRead ==
    \/ OnRefreshButtonClicked /\ HistWithinBound
    \/ \E pid \in OpPids : LookupProcess(pid) /\ HistWithinBound

SpecRead == InitRead /\ [][NextRead]_vars

\* Lookups that find nothing, next to a cache and a history that are in use:
\* PID 1 drawn from the forms of its comm and status records, PID 2 absent or
\* a daemon, with ticks, focus mode and lookups of valid and invalid PIDs
InitMiss ==
    InitFrom({[p \in PIDS |-> IF p \in Watched THEN a ELSE b] :
                  a \in CommForms \cup StatusForms, b \in {DeadProc, ReadDaemon}})

NextMiss ==
    \/ RefreshProcessList /\ HistWithinBound
    \/ \E pid \in OpPids : LookupProcess(pid) /\ HistWithinBound
    \/ \E enabled \in BOOLEAN : SetFocusMode(enabled)
    \/ StartPeriodicRefresh
    \/ \E d \in TimeSteps : Advance(d)

SpecMiss == InitMiss /\ [][NextMiss]_vars

\* ---------------------------------------------------------------------
\* The sampling specification: one process, sampled once per clock step by a
\* lookup or a manual refresh, its memory never shrinking.  The clock steps
\* by 1 s or 48 s, so that both the length cap and the age limit are reached.
\* ---------------------------------------------------------------------
HistSteps == {1000, 48000}
HistPid == CHOOSE p \in Watched : TRUE

SampledNow ==
    /\ m_processMemoryHistory[HistPid] # <<>>
    /\ Last(m_processMemoryHistory[HistPid]).first = now

InitHist ==
    /\ Init
    /\ euid = USER_UID
    /\ proc = [p \in PIDS |-> IF p = HistPid
                              THEN Process(NAME_BASH, CPU_BUSY, USER_UID)
                              ELSE DeadProc]

HistAdvance(d, m) ==
    /\ stack = <<>>
    /\ SampledNow
    /\ now + d <= MaxHistTimeSec * 1000
    /\ m >= proc[HistPid].rss
    /\ now' = now + d
    /\ proc' = [proc EXCEPT ![HistPid].rss = m]
    /\ UNCHANGED <<euid, autoRefreshChecked, m_cachedProcesses, m_focusModeEnabled,
                   m_processMemoryHistory, timerActive, timerDue, stack, done,
                   published, heldInFocus>>

HistLookup == ~SampledNow /\ LookupProcess(HistPid)

HistRefresh == ~SampledNow /\ OnRefreshButtonClicked

NextHist ==
    \/ \E d \in HistSteps, m \in RssLevels : HistAdvance(d, m)
    \/ HistLookup
    \/ HistRefresh
    \/ DialogClosed

SpecHist == InitHist /\ [][NextHist]_vars


\* =====================================================================
\* Properties
\* =====================================================================
\* every snapshot a query or a tick has returned, holds or is about to return
Snapshots ==
    {done.snap[i] : i \in 1..Len(done.snap)}
    \cup {m_cachedProcesses[i] : i \in 1..Len(m_cachedProcesses)}
    \cup UNION {{stack[k].acc[i] : i \in 1..Len(stack[k].acc)} : k \in 1..Len(stack)}
    \cup UNION {{stack[k].cur[i] : i \in 1..Len(stack[k].cur)} : k \in 1..Len(stack)}

\* the log entries of a handler that are system calls / signals
Kills(log) == {i \in 1..Len(log) : log[i].e = "kill"}
Emits(log, sig) == {i \in 1..Len(log) : log[i].e = "emit" /\ log[i].sig = sig}
Renices(log) == {i \in 1..Len(log) : log[i].e = "setpriority"}

\* ---------------------------------------------------------------------
\* C1 (SpecHist)
\* ---------------------------------------------------------------------
HistoryBounded(h) ==
    \/ h = <<>>
    \/ /\ Len(h) <= HISTORY_MAX_ENTRIES
       /\ \A i \in 1..Len(h) : Last(h).first - h[i].first <= MEMORY_LEAK_TIME_WINDOW_MS

\* C1: every stored history, and the memoryHistory of every snapshot, has at
\* most 30 entries and no entry more than 60000 ms older than its latest one
C1_HistoryBounds ==
    /\ \A p \in PIDS : HistoryBounded(m_processMemoryHistory[p])
    /\ \A s \in Snapshots : HistoryBounded(s.memoryHistory)

\* a lookup has returned a full history from which entries were evicted
C1_Witness ==
    /\ done.kind = "lookup" /\ done.snap # <<>>
    /\ Len(done.snap[1].memoryHistory) = HISTORY_MAX_ENTRIES
    /\ done.snap[1].memoryHistory[1].first > 0
    /\ done.snap[1].memoryHistory = m_processMemoryHistory[done.pid]

\* ---------------------------------------------------------------------
\* C2, C3 (SpecHist)
\* ---------------------------------------------------------------------
\* the reference sample as the specification words it: the earliest sample
\* at least 0.8 * W older than the latest one, else the oldest sample
SpecReference(h) ==
    LET old == {i \in 1..Len(h) :
                   10 * (Last(h).first - h[i].first) >= 8 * MEMORY_LEAK_TIME_WINDOW_MS}
    IN  IF old = {} THEN h[1]
        ELSE h[CHOOSE i \in old : \A j \in old : i <= j]

RawGrowthKB(h) == Last(h).second - SpecReference(h).second
SpanMS(h) == Last(h).first - SpecReference(h).first

\* growth * W / span > G, both sides divided by 800
NormalisedExceeds(h) ==
    /\ SpanMS(h) > 0
    /\ RawGrowthKB(h) * (MEMORY_LEAK_TIME_WINDOW_MS \div 800)
           > ((MEMORY_LEAK_THRESHOLD_MB * KB_PER_MB) \div 800) * SpanMS(h)

SpecLeak(h) ==
    /\ Len(h) >= 2
    /\ SpanMS(h) > 0
    /\ RawGrowthKB(h) > MEMORY_LEAK_THRESHOLD_MB * KB_PER_MB
    /\ NormalisedExceeds(h)

\* C2: on a history of at least 2 samples the leak flag is the two-stage test
\* against the earliest sample aged >= 0.8 * W, or against the oldest sample
\* when no sample is that old
C2_LeakAgainstOldestFallback ==
    \A s \in Snapshots :
        Len(s.memoryHistory) >= 2 => (s.isMemoryLeech <=> SpecLeak(s.memoryHistory))

\* C3: a flagged snapshot has at least 2 samples and a raw growth above
\* 100 MB; the raw threshold gates before the normalisation
C3_RawThresholdGates ==
    \A s \in Snapshots :
        s.isMemoryLeech =>
            /\ Len(s.memoryHistory) >= 2
            /\ RawGrowthKB(s.memoryHistory) > MEMORY_LEAK_THRESHOLD_MB * KB_PER_MB

\* a returned snapshot whose reference sample is old enough, whose raw growth
\* is at most 100 MB and whose normalised growth exceeds 100 MB: not flagged
C3_Witness ==
    \E s \in Snapshots :
        /\ Len(s.memoryHistory) >= 2
        /\ 10 * SpanMS(s.memoryHistory) >= 8 * MEMORY_LEAK_TIME_WINDOW_MS
        /\ RawGrowthKB(s.memoryHistory) <= MEMORY_LEAK_THRESHOLD_MB * KB_PER_MB
        /\ NormalisedExceeds(s.memoryHistory)
        /\ ~s.isMemoryLeech


\* ---------------------------------------------------------------------
\* C4, C7, C8 (SpecCtl)
\* ---------------------------------------------------------------------
LifecycleKinds == {"terminate", "suspend", "resume"}

\* the caller is not root and the ownership check cannot pass for the target
NotOwner(pre) == euid # ROOT_UID /\ ~(pre.uidMatch /\ pre.statusOk)

\* C4: terminate (either method), suspend and resume by a caller that is not
\* root, on a process of another UID or with an unreadable status record,
\* return false and make no kill system call
C4_NonOwnerRefused ==
    /\ (done.kind \in LifecycleKinds /\ NotOwner(done.pre))
           => (done.ret = FALSE /\ Kills(done.log) = {})
    /\ \A k \in 1..Len(stack) :
           (stack[k].kind \in LifecycleKinds /\ NotOwner(stack[k].pre))
               => Kills(stack[k].log) = {}

\* a forced termination of an existing process of another user was refused
C4_Witness ==
    /\ done.kind = "terminate" /\ done.arg = SIGKILL
    /\ done.pre.exists /\ done.pre.statusOk /\ ~done.pre.uidMatch
    /\ euid # ROOT_UID
    /\ done.ret = FALSE /\ done.log = <<>>
    /\ Exists(proc, done.pid)

\* C7: every call of terminate emits exactly one termination-result event,
\* for its PID and with success equal to the value it returns
C7_TerminateAlwaysEmits ==
    done.kind = "terminate" =>
        /\ Cardinality(Emits(done.log, "processTerminated")) = 1
        /\ \A i \in Emits(done.log, "processTerminated") :
               done.log[i].pid = done.pid /\ done.log[i].ok = done.ret

\* the system call behind a completed control operation failed
SyscallFailed(d) ==
    \E i \in 1..Len(d.log) :
        d.log[i].e \in {"kill", "setpriority"} /\ d.log[i].pid = d.pid /\ ~d.log[i].ok

QuietKinds == {"suspend", "resume", "setPriority"}

\* C8: a suspend, resume or setPriority whose system call fails returns false
\* and publishes a result event (pid, false)
C8_FailurePublishesEvent ==
    (done.kind \in QuietKinds /\ SyscallFailed(done)) =>
        /\ done.ret = FALSE
        /\ \E i \in 1..Len(done.log) :
               done.log[i].e = "emit" /\ done.log[i].pid = done.pid /\ ~done.log[i].ok

\* C8 as the code has it: a suspend, resume or setPriority whose system call
\* fails returns false and emits nothing; a terminate whose kill call fails
\* returns false and emits processTerminated(pid, false) once
C8_FailureReturnsFalse ==
    /\ (done.kind \in QuietKinds /\ SyscallFailed(done)) =>
           /\ done.ret = FALSE
           /\ \A i \in 1..Len(done.log) : done.log[i].e # "emit"
    /\ (done.kind = "terminate" /\ SyscallFailed(done)) =>
           /\ done.ret = FALSE
           /\ Cardinality(Emits(done.log, "processTerminated")) = 1
           /\ \A i \in Emits(done.log, "processTerminated") :
                  done.log[i].pid = done.pid /\ ~done.log[i].ok

\* a suspend whose kill call failed has returned
C8_Witness ==
    /\ done.kind = "suspend"
    /\ SyscallFailed(done)
    /\ done.ret = FALSE


\* ---------------------------------------------------------------------
\* C5, C6 (Spec); C9, C10 (SpecFocus)
\* ---------------------------------------------------------------------
SnapPids(snap) == {snap[i].pid : i \in 1..Len(snap)}

\* the position of the assignment to m_cachedProcesses in the log of a tick
CacheWrites(log) == {i \in 1..Len(log) : log[i].e = "cache"}

\* C5: a tick takes its snapshot (history appended, leak flag computed, leak
\* signals emitted), then replaces the cache by exactly that snapshot, then
\* rebalances iff focus mode is enabled and on the processes of the new
\* cache, then publishes the same snapshot, once and last
C5_TickOrder ==
    done.kind = "tick" =>
        LET log == done.log
            n == Len(log)
        IN  /\ Cardinality(CacheWrites(log)) = 1
            /\ Emits(log, "processesUpdated") = {n}
            /\ log[n].snap = done.snap
            /\ \A c \in CacheWrites(log) :
                   /\ log[c].snap = done.snap
                   /\ \A i \in 1..(c - 1) :
                          log[i].e = "emit" /\ log[i].sig = "memoryLeakDetected"
                   /\ \A i \in (c + 1)..(n - 1) :
                          /\ log[i].e = "setpriority"
                          /\ log[i].pid \in SnapPids(done.snap)
                          /\ done.pre.focus
                   /\ done.pre.focus =>
                          \A k \in 1..Len(done.snap) :
                              (\/ done.snap[k].pid = GetFocusedWindowPID(done.snap)
                               \/ IsBackgroundProcess(done.snap[k]))
                                  => \E i \in (c + 1)..(n - 1) :
                                         log[i].pid = done.snap[k].pid
            /\ \A k \in 1..Len(done.snap) :
                   /\ done.snap[k].memoryHistory # <<>>
                   /\ Last(done.snap[k].memoryHistory).second = done.snap[k].memoryKB
                   /\ done.snap[k].isMemoryLeech
                          = DetectMemoryLeak(done.snap[k].memoryHistory)

\* a tick with focus mode enabled has replaced a different cache, rebalanced
\* and published
C5_Witness ==
    /\ done.kind = "tick" /\ done.pre.focus
    /\ done.snap # <<>>
    /\ Renices(done.log) # {}
    /\ m_cachedProcesses = done.snap /\ published = done.snap

\* C6: no tick begins while a tick, a lookup, a manual refresh or a control
\* action is in progress, blocked in a notification or not
C6_NoOverlap ==
    /\ \A k \in 2..Len(stack) : stack[k].kind # "tick"
    /\ done.kind = "tick" => done.depth = 0

\* C9: a disable of focus mode issues setPriority(pid, 0) for every process
\* still alive that the cache held while focus mode was enabled
C9_DisableResetsAllHeld ==
    (done.kind = "focus" /\ done.arg = 0 /\ done.pre.focus) =>
        \A p \in done.pre.held :
            \E i \in Renices(done.log) : done.log[i].pid = p /\ done.log[i].a = 0

\* C10: when a manual refresh or a lookup has returned, the cache holds its
\* result
C10_QueryWritesCache ==
    done.kind \in {"manual", "lookup"} => m_cachedProcesses = done.snap

\* C10 as the code has it: only a tick writes the cache, so the cache is the
\* snapshot the last tick published (empty before the first tick), and a
\* focus-mode enable or disable acts on the processes of that snapshot
C10_OnlyTickWritesCache ==
    /\ m_cachedProcesses = published
    /\ done.kind = "focus" =>
           /\ done.snap = published
           /\ \A i \in Renices(done.log) : done.log[i].pid \in SnapPids(published)

\* with focus mode enabled, a manual refresh has returned a snapshot that
\* differs from the non-empty cache, and the cache is still the last tick's
C10_Witness ==
    /\ done.kind = "manual"
    /\ m_focusModeEnabled
    /\ m_cachedProcesses # <<>>
    /\ done.snap # <<>>
    /\ done.snap # m_cachedProcesses

\* ---------------------------------------------------------------------
\* C11 (Spec)
\* ---------------------------------------------------------------------
QueryKinds == {"lookup", "manual"}

\* C11: every successful lookup is followed by a publication of snapshots
C11_LookupPublishes ==
    (done.kind = "lookup" /\ done.ret) => Emits(done.log, "processesUpdated") # {}

\* C11 as the code has it: a lookup or a manual refresh returns its result
\* and publishes no snapshots; a tick publishes its snapshot exactly once,
\* and what was published last is the snapshot of the last tick
C11_PublishOncePerTick ==
    /\ done.kind \in QueryKinds => Emits(done.log, "processesUpdated") = {}
    /\ \A k \in 1..Len(stack) : Emits(stack[k].log, "processesUpdated") = {}
    /\ done.kind = "tick" =>
           /\ Cardinality(Emits(done.log, "processesUpdated")) = 1
           /\ published = done.snap

\* a lookup has returned a snapshot that differs from what was published last
C11_Witness ==
    /\ done.kind = "lookup" /\ done.ret
    /\ done.snap # <<>>
    /\ published # <<>>
    /\ \A i \in 1..Len(published) : published[i] # done.snap[1]


\* ---------------------------------------------------------------------
\* C12 (SpecHist)
\* ---------------------------------------------------------------------
\* the leak notifications for pid in the log of a handler
LeakEmits(log, pid) ==
    {i \in Emits(log, "memoryLeakDetected") : log[i].pid = pid}

\* the observations that are blocked in the leak dialog
BlockedObservations ==
    {k \in 1..Len(stack) : stack[k].phase = "leak" /\ stack[k].cur # <<>>}

\* C12: when two consecutive observations of a PID are both flagged, the
\* second one emits no leak notification
C12_EmitOnTransitionOnly ==
    \A k \in BlockedObservations :
        (/\ done.kind \in QueryKinds
         /\ \E i \in 1..Len(done.snap) :
                done.snap[i].pid = stack[k].cur[1].pid /\ done.snap[i].isMemoryLeech
         /\ stack[k].cur[1].isMemoryLeech)
            => LeakEmits(stack[k].log, stack[k].cur[1].pid) = {}

\* C12 as the code has it: every flagged observation emits one notification,
\* an observation that is not flagged emits none; the notification carries
\* the PID, the name and the growth latest.M - reference.M in kB
LeakNotified(log, s) ==
    /\ Cardinality(LeakEmits(log, s.pid)) = (IF s.isMemoryLeech THEN 1 ELSE 0)
    /\ \A i \in LeakEmits(log, s.pid) :
           /\ log[i].snap # <<>>
           /\ log[i].snap[1].pid = s.pid
           /\ log[i].snap[1].name = s.name
           /\ log[i].a = Last(s.memoryHistory).second
                             - LeakReference(s.memoryHistory).second

C12_EmitOnEveryFlaggedObservation ==
    /\ done.kind \in QueryKinds =>
           \A i \in 1..Len(done.snap) : LeakNotified(done.log, done.snap[i])
    /\ \A k \in BlockedObservations : LeakNotified(stack[k].log, stack[k].cur[1])

\* a second consecutive flagged observation of a PID, on a history of three
\* samples or more, is blocked in the dialog of its own notification
C12_Witness ==
    \E k \in BlockedObservations :
        /\ done.kind \in QueryKinds
        /\ \E i \in 1..Len(done.snap) :
               /\ done.snap[i].pid = stack[k].cur[1].pid
               /\ done.snap[i].isMemoryLeech
               /\ LeakEmits(done.log, done.snap[i].pid) # {}
        /\ stack[k].cur[1].isMemoryLeech
        /\ Len(stack[k].cur[1].memoryHistory) >= 3
        /\ LeakEmits(stack[k].log, stack[k].cur[1].pid) # {}

\* ---------------------------------------------------------------------
\* The rebalance pass, the foreground pick and the classification
\* ---------------------------------------------------------------------
\* a handler that has run optimizeForFocusedApp_ on done.snap: a tick with
\* focus mode enabled, or the call that enabled it
RebalanceDone ==
    \/ done.kind = "tick" /\ done.pre.focus
    \/ done.kind = "focus" /\ done.arg = 1 /\ ~done.pre.focus

\* the priority changes a log holds for pid
RenicesOf(log, pid) == {i \in Renices(log) : log[i].pid = pid}

\* C13: a rebalance pass issues at most one priority change per cached
\* process: -10 for the foreground PID, +10 for every other process that is
\* classified background, none for the rest and none for PID 0
C13_RebalanceOnePerProcess ==
    RebalanceDone =>
        LET fg == GetFocusedWindowPID(done.snap)
        IN  /\ \A i \in Renices(done.log) : done.log[i].pid \in SnapPids(done.snap)
            /\ \A k \in 1..Len(done.snap) :
                   LET s == done.snap[k]
                       r == RenicesOf(done.log, s.pid)
                   IN  /\ Cardinality(r) <= 1
                       /\ s.pid = fg =>
                              \E i \in r : done.log[i].a = -10
                       /\ (s.pid # fg /\ IsBackgroundProcess(s)) =>
                              \E i \in r : done.log[i].a = 10
                       /\ (s.pid # fg /\ ~IsBackgroundProcess(s)) => r = {}
            /\ RenicesOf(done.log, 0) = {}

\* a pass over a foreground process, a background process, and a pass over a
\* process that is neither
C13_Witness ==
    /\ RebalanceDone
    /\ Len(done.snap) = 2
    /\ Cardinality(Renices(done.log)) = 1
    /\ \E i \in Renices(done.log) : done.log[i].a = -10
    /\ \E k \in 1..2 : /\ ~IsBackgroundProcess(done.snap[k])
                       /\ RenicesOf(done.log, done.snap[k].pid) = {}

\* the foreground PID a rebalance pass acted on: the target of its -10
ObservedPick(log) ==
    IF \E i \in Renices(log) : log[i].a = -10
    THEN log[CHOOSE i \in Renices(log) : log[i].a = -10].pid
    ELSE 0

NonBackground(cache) == {k \in 1..Len(cache) : ~IsBackgroundProcess(cache[k])}

DenylistedNames == {NAME_JOURNALD, NAME_CRON_UPPER}

\* the classification as stated: a denylisted name, or below 1.0 percent
\* CPU with more than 50.0 MB resident
StatedBackground(s) ==
    \/ s.name \in DenylistedNames
    \/ (s.cpuPercent < CPU_ONE /\ s.memoryKB > RSS_FIFTY)

\* C15: a process is treated as background (lowered by +10 unless it is the
\* pick, and never picked) exactly when its name holds a denylisted
\* substring in any letter case, or its CPU is below 1.0 and its memory above
\* 50.0 MB, the bounds themselves excluded
C15_BackgroundClassification ==
    RebalanceDone =>
        \A k \in 1..Len(done.snap) :
            LET s == done.snap[k]
            IN  /\ IsBackgroundProcess(s) <=> StatedBackground(s)
                /\ StatedBackground(s) =>
                       \E i \in RenicesOf(done.log, s.pid) : done.log[i].a = 10
                /\ ~StatedBackground(s) =>
                       \A i \in RenicesOf(done.log, s.pid) : done.log[i].a = -10

\* a busy upper-case CRON was lowered, next to a process at exactly 1.0
\* percent and 80 MB that was picked as the foreground
C15_Witness ==
    /\ RebalanceDone
    /\ \E k \in 1..Len(done.snap) :
           /\ done.snap[k].name = NAME_CRON_UPPER
           /\ done.snap[k].cpuPercent = CPU_BUSY
           /\ \E i \in RenicesOf(done.log, done.snap[k].pid) : done.log[i].a = 10
    /\ \E k \in 1..Len(done.snap) :
           /\ done.snap[k].name = NAME_BASH
           /\ done.snap[k].cpuPercent = CPU_ONE
           /\ done.snap[k].memoryKB = RSS_EIGHTY
           /\ \E i \in RenicesOf(done.log, done.snap[k].pid) : done.log[i].a = -10

\* ---------------------------------------------------------------------
\* setPriority
\* ---------------------------------------------------------------------
Min(a, b) == IF a <= b THEN a ELSE b
Max(a, b) == IF a >= b THEN a ELSE b

\* C16: setPriority hands min(19, max(-20, n)) to the system call, whoever
\* owns the process, and returns what the system call answered; an invalid
\* PID reaches no system call
C16_SetPriorityClamps ==
    done.kind = "setPriority" =>
        IF done.pid >= 1 /\ done.pid < PID_LIMIT
        THEN /\ Len(done.log) = 1
             /\ done.log[1].e = "setpriority"
             /\ done.log[1].pid = done.pid
             /\ done.log[1].a = Min(19, Max(-20, done.arg))
             /\ done.ret = done.log[1].ok
             /\ (done.arg >= -20 /\ done.arg <= 19) => done.log[1].a = done.arg
        ELSE done.log = <<>> /\ ~done.ret

\* a request of 999 for another user's process went to the system call as
\* 19, was rejected, and setPriority returned false
C16_Witness ==
    /\ done.kind = "setPriority"
    /\ done.arg = 999
    /\ done.pre.exists /\ ~done.pre.uidMatch /\ euid # ROOT_UID
    /\ Len(done.log) = 1 /\ done.log[1].a = 19 /\ ~done.log[1].ok
    /\ ~done.ret

\* ---------------------------------------------------------------------
\* enableFocusMode
\* ---------------------------------------------------------------------
\* C20: enableFocusMode with the flag it already has issues no priority
\* change and no focusModeChanged, and leaves the flag and the cache as they
\* were; a call that changes the flag emits focusModeChanged exactly once,
\* carrying the new flag
C20_SetEnabledIdempotent ==
    done.kind = "focus" =>
        /\ m_focusModeEnabled = (done.arg = 1)
        /\ m_cachedProcesses = done.snap
        /\ done.pre.focus = (done.arg = 1) => done.log = <<>>
        /\ done.pre.focus # (done.arg = 1) =>
               /\ Cardinality(Emits(done.log, "focusModeChanged")) = 1
               /\ \A i \in Emits(done.log, "focusModeChanged") :
                      done.log[i].ok = (done.arg = 1)

\* focus mode was enabled again over a cache that holds a process, and
\* nothing was issued
C20_Witness ==
    /\ done.kind = "focus"
    /\ done.arg = 1
    /\ done.pre.focus
    /\ done.snap # <<>>
    /\ done.log = <<>>

\* ---------------------------------------------------------------------
\* The reads of getProcessInfo
\* ---------------------------------------------------------------------
\* every snapshot a completed query holds
DoneSnapshots == {done.snap[i] : i \in 1..Len(done.snap)}

\* the process is alive and its comm opens and holds a character that is not
\* whitespace
NameReadable(p) ==
    /\ p.alive /\ p.commOk
    /\ \E i \in 1..Len(p.name) : p.name[i] # " " /\ p.name[i] # "\t"

\* the queries that have returned: the processes a lookup or a scan was to
\* report
Asked ==
    IF done.kind = "lookup" THEN {done.pid} \cap PIDS
    ELSE IF done.kind = "manual" THEN PIDS
    ELSE {}

\* C17: a live process with a readable name always gets a snapshot
C17_AlwaysSnapshot ==
    \A p \in Asked : NameReadable(proc[p]) => p \in SnapPids(done.snap)

\* the snapshot s holds, field by field, what the records of p give, and the
\* default where a record or a field is unavailable
FieldByField(s, p) ==
    /\ s.memoryKB = (IF p.rssField = "value" THEN p.rss ELSE 0)
    /\ (~p.statOk \/ p.statParts < 16 \/ ~p.utimeOk \/ ~p.stimeOk
          \/ p.uptime.read \notin {"value", "nan", "inf"}
          \/ (p.uptime.read = "value" /\ p.uptime.cs <= 0)) => s.cpuPercent = 0
    /\ s.state = (IF p.statOk /\ p.statParts >= 3 /\ p.stopped
                  THEN "Suspended" ELSE "Running")
    /\ s.priority = (IF p.statOk /\ p.statParts >= 19 /\ p.niceOk
                     THEN p.nice ELSE 0)

\* C17 as the code has it: a live process with a readable name gets a
\* snapshot exactly when its status record opens; an absent or malformed
\* VmRSS line and an unreadable, short or malformed stat or uptime record
\* give the defaults 0 / 0 / Running / 0 field by field
C17_SnapshotUnlessStatusUnreadable ==
    /\ \A p \in Asked :
           NameReadable(proc[p]) => (p \in SnapPids(done.snap) <=> proc[p].statusOk)
    /\ done.kind \in QueryKinds =>
           \A s \in DoneSnapshots : s.pid \in PIDS /\ FieldByField(s, proc[s.pid])

\* a lookup of a stopped process at niceness 5 whose stat does not open and
\* whose status has no VmRSS line returned the four defaults
C17_Witness ==
    /\ done.kind = "lookup" /\ done.ret /\ done.pid \in PIDS
    /\ ~proc[done.pid].statOk /\ proc[done.pid].rssField = "absent"
    /\ proc[done.pid].stopped /\ proc[done.pid].nice = NICE_SET
    /\ done.snap[1].memoryKB = 0 /\ done.snap[1].cpuPercent = 0
    /\ done.snap[1].state = "Running" /\ done.snap[1].priority = 0

\* C18: every snapshot has memoryMB >= 0 and 0 <= cpuPercent <= 100
C18_MetricsInRange ==
    done.kind \in QueryKinds =>
        \A s \in DoneSnapshots :
            s.memoryKB >= 0 /\ s.cpuPercent >= 0 /\ s.cpuPercent <= 1000

\* C19: every entry of a scan has a PID in 1..65535 whose directory exists
\* and a name that is not empty; the entries of /proc that are no PID, the
\* PIDs without a directory and the processes whose name does not read are
\* left out, and every other process whose records read is in the result
C19_ScanEntriesValid ==
    done.kind = "manual" =>
        /\ done.ret
        /\ \A s \in DoneSnapshots :
               /\ s.pid >= 1 /\ s.pid <= 65535
               /\ s.pid \in PIDS /\ proc[s.pid].alive
               /\ s.name # <<>>
               /\ NameReadable(proc[s.pid])
        /\ \A p \in PIDS :
               (NameReadable(proc[p]) /\ proc[p].statusOk) => p \in SnapPids(done.snap)
        /\ \A i, j \in 1..Len(done.snap) :
               i # j => done.snap[i].pid # done.snap[j].pid

\* a scan left out a live process whose name is blank and returned the
\* process listed after it
C19_Witness ==
    /\ done.kind = "manual"
    /\ proc[1].alive /\ proc[1].commOk /\ proc[1].name = NAME_BLANK
    /\ SnapPids(done.snap) = {2}

\* ---------------------------------------------------------------------
\* The periodic timer
\* ---------------------------------------------------------------------
\* a step that completes a scheduled tick
TickStep == done' # done /\ done'.kind = "tick"

\* C21: stopPeriodicRefresh on an inactive timer changes nothing;
\* startPeriodicRefresh leaves one active schedule whose interval starts
\* anew, so that a tick takes a timeout that is due and uses it up; while the
\* timer is inactive no tick completes and the cache and the published
\* snapshots stay as they are
C21_StartStopIdempotent ==
    [][/\ (StopPeriodicRefresh /\ ~timerActive) => UNCHANGED vars
       /\ StopPeriodicRefresh => (~timerActive' /\ ~timerDue')
       /\ StartPeriodicRefresh => (timerActive' /\ ~timerDue')
       /\ TickStep => (timerActive /\ timerDue /\ ~timerDue')
       /\ ~timerActive =>
              /\ ~TickStep
              /\ m_cachedProcesses' = m_cachedProcesses
              /\ published' = published
              /\ ~timerDue]_vars

\* the timer was started, a tick cached a process, the timer was stopped,
\* and time went on without a tick becoming due
C21_Witness ==
    /\ ~timerActive /\ ~timerDue
    /\ m_cachedProcesses # <<>>
    /\ done.kind = "tick"
    /\ now = MaxTimeSec * 1000

\* ---------------------------------------------------------------------
\* Focus mode while the foreground pick changes
\* ---------------------------------------------------------------------
\* C22: after a rebalance pass the foreground PID of that pass is the only
\* cached process running at niceness -10
C22_OnlyPickBoosted ==
    RebalanceDone =>
        \A k \in 1..Len(done.snap) :
            LET pid == done.snap[k].pid
            IN  (proc[pid].alive /\ proc[pid].nice = -10) =>
                    pid = GetFocusedWindowPID(done.snap)

\* ---------------------------------------------------------------------
\* The leak flag as a function of the retained history
\* ---------------------------------------------------------------------
\* the oldest retained sample is at least 0.8 * W older than the latest one
OldestAged(h) == 10 * (Last(h).first - h[1].first) >= 8 * MEMORY_LEAK_TIME_WINDOW_MS

\* the growth since the oldest retained sample exceeds 100 MB
GrownSinceOldest(h) ==
    Last(h).second - h[1].second > MEMORY_LEAK_THRESHOLD_MB * KB_PER_MB

\* growth * W / span > G against the oldest retained sample, both sides
\* divided by 800
NormalisedSinceOldest(h) ==
    (Last(h).second - h[1].second) * (MEMORY_LEAK_TIME_WINDOW_MS \div 800)
        > ((MEMORY_LEAK_THRESHOLD_MB * KB_PER_MB) \div 800)
              * (Last(h).first - h[1].first)

HistoryKeys(hist) == {p \in PIDS : hist[p] # <<>>}

\* C24: the history map never loses a key, a process that exits or starts
\* leaves the map as it is, and every new snapshot carries the history its
\* PID had before, extended by the new sample, with the leak flag computed
\* on that history, whichever process the earlier samples were taken from
C24_HistoryKeptAcrossReuse ==
    [][/\ HistoryKeys(m_processMemoryHistory) \subseteq
              HistoryKeys(m_processMemoryHistory')
       /\ (\E p \in PIDS : proc[p].alive # proc'[p].alive) =>
              m_processMemoryHistory' = m_processMemoryHistory
       /\ \A s \in Snapshots' \ Snapshots :
              /\ s.memoryHistory =
                     UpdateMemoryHistory(m_processMemoryHistory[s.pid], now,
                                         s.memoryKB)
              /\ s.isMemoryLeech = DetectMemoryLeak(s.memoryHistory)]_vars

\* the first lookup of the 120 MB daemon, 48 s after the last sample of the
\* 10 MB process that had its PID: flagged, and notified with a growth of
\* 110 MB
C24_Witness ==
    /\ done.kind = "lookup" /\ done.ret /\ Len(done.snap) = 1
    /\ LET s == done.snap[1]
           h == s.memoryHistory
       IN  /\ s.name = NAME_JOURNALD /\ s.memoryKB = RSS_HIGH
           /\ s.isMemoryLeech
           /\ Len(h) = 2
           /\ h[1].second = RSS_LOW /\ h[2].second = RSS_HIGH
           /\ \E i \in Emits(done.log, "memoryLeakDetected") :
                  done.log[i].a = RSS_HIGH - RSS_LOW

\* ---------------------------------------------------------------------
\* Lookups that return no snapshot
\* ---------------------------------------------------------------------
\* C25: a lookup that returns no snapshot leaves the history map, the cache
\* and the focus-mode flag as they were, opens no dialog and emits no
\* memoryLeakDetected; a history changes only in a step that produces a
\* snapshot of its PID carrying that history
C25_NoneLeavesStateUnchanged ==
    [][/\ (done' # done /\ done'.kind = "lookup" /\ ~done'.ret) =>
              /\ m_processMemoryHistory' = m_processMemoryHistory
              /\ m_cachedProcesses' = m_cachedProcesses
              /\ m_focusModeEnabled' = m_focusModeEnabled
              /\ published' = published
              /\ stack' = stack
              /\ done'.snap = <<>>
              /\ Emits(done'.log, "memoryLeakDetected") = {}
       /\ \A p \in PIDS :
              m_processMemoryHistory'[p] # m_processMemoryHistory[p] =>
                  \E s \in Snapshots' :
                      s.pid = p /\ s.memoryHistory = m_processMemoryHistory'[p]]_vars

\* a lookup of a process whose directory exists has returned no snapshot
\* while focus mode is enabled, the cache holds another process and the
\* history map holds samples
C25_Witness ==
    /\ done.kind = "lookup" /\ ~done.ret
    /\ IsValidProcessID(done.pid) /\ done.pre.exists
    /\ m_focusModeEnabled
    /\ m_cachedProcesses # <<>>
    /\ m_processMemoryHistory[done.pid] = <<>>
    /\ \E p \in PIDS : Len(m_processMemoryHistory[p]) = MaxHist

\* ---------------------------------------------------------------------
\* Operations called with an invalid PID
\* ---------------------------------------------------------------------
PidOperations == {"terminate", "suspend", "resume", "setPriority", "lookup"}

\* the system calls a log holds
Syscalls(log) == Kills(log) \cup Renices(log)

\* a pid <= 0 or >= 65536
OutOfRange(pid) == pid <= 0 \/ pid >= PID_LIMIT

\* C26: terminate, suspend, resume, setPriority and a lookup called with a
\* pid <= 0 or >= 65536 return false (no snapshot), issue no kill and no
\* setpriority, emit nothing, open no dialog and leave the process table,
\* the history map and the cache as they were; no kill or setpriority is
\* ever issued for such a pid
C26_InvalidPidRefused ==
    [][/\ (done' # done /\ done'.kind \in PidOperations
              /\ OutOfRange(done'.pid)) =>
              /\ ~done'.ret
              /\ done'.log = <<>> /\ done'.snap = <<>>
              /\ stack' = stack
              /\ proc' = proc
              /\ m_processMemoryHistory' = m_processMemoryHistory
              /\ m_cachedProcesses' = m_cachedProcesses
              /\ published' = published
       /\ \A i \in Syscalls(done'.log) : ~OutOfRange(done'.log[i].pid)
       /\ \A k \in 1..Len(stack') :
              \A i \in Syscalls(stack'[k].log) :
                  ~OutOfRange(stack'[k].log[i].pid)]_vars

\* terminate was called with -1 and refused while a process runs, the cache
\* holds it and the history map holds its samples
C26_Witness ==
    /\ done.kind = "terminate" /\ done.pid = -1 /\ ~done.ret
    /\ \E p \in PIDS : proc[p].alive /\ m_processMemoryHistory[p] # <<>>
    /\ m_cachedProcesses # <<>>

\* ---------------------------------------------------------------------
\* The auto-refresh button and the timer
\* ---------------------------------------------------------------------
\* C27: from the end of the construction of MainWindow on, the refresh timer
\* is active exactly when the auto-refresh button is checked
C27_TimerTracksToggle == timerActive = autoRefreshChecked

====
